---- MODULE Spec2Model ----
(***************************************************************************)
(* Ingestion core of Gestor_Neto_Contabilidade.                            *)
(*                                                                         *)
(*   SpecClient    the HTTP client (scripts/acessorias_client.py):         *)
(*                 _request's retry loop, get_process, list_processes.     *)
(*   SpecPipeline  the single-flight guard (scripts/pipeline.py,           *)
(*                 run_all.py, app/api.py, scripts/scheduler.py).          *)
(*   SpecSync      the watermark bookkeeping of the sync runs              *)
(*                 (scripts/pipeline.py, scripts/db.py, scripts/fetch_api.py).*)
(*                                                                         *)
(* Times of the client are in milliseconds; timestamps of the sync part    *)
(* are abstract instants 1, 2, 3, ... of one UTC clock.                    *)
(***************************************************************************)
EXTENDS Integers, Sequences, FiniteSets, TLC

VARIABLES
    client,     \* AcessoriasClient fields fixed by __post_init__
    call,       \* the client method in progress and where its loop stands
    req,        \* locals of the _request call in progress
    wire,       \* the HTTP exchange: the last answer, and the time that has passed
                \* since the last HTTP call completed when the next one starts
    lock,       \* PIPELINE_LOCK: 0 when free, else the thread holding it
    boot,       \* run_all.main: position of the start-up sequence
    triggers,   \* per refresh request: position of trigger_refresh and of its runner thread
    job,        \* the APScheduler job registered by schedule_jobs
    cron,       \* the stand-alone scripts/scheduler.py process
    signals,    \* answers given by the /api/refresh endpoint so far: 202 and 409 counts
    now,        \* the UTC clock read by datetime.now(timezone.utc)
    sync_state, \* the sync_state table: endpoint -> last_sync_dh (None is NoTs)
    sync_file,  \* data/.sync_state.json: key -> last_sync (None is NoTs)
    run,        \* the sync run in progress, or the last one that finished
    wm,         \* one computation of the DtLastDH filter: stored value, clock, result
    store,      \* the committed tables: companies, processes, deliveries (row id = index)
    last,       \* the last store operation: the kind of row and the error it raised
    batch,      \* a batch of rows in a row loop: caller, rows left, session, outcomes
    pipe,       \* a run over the resources: its runner and the outcome of each step
    files,      \* the published snapshot files: what each one holds
    fused,      \* the last fusion of two event lists: inputs and merged map
    calc,       \* the last application of a pure function: its input and its result
    recon,      \* the reconciliation of events: source rows, stored and published events
    listing,    \* a paginated listing: the server, the pages requested, the records kept
    resync,     \* a sync run and its repetition: the pages, the tables, where it stands
    hist,       \* a run with a full delivery sync: the companies stored and asked for
    snap        \* the snapshot files: who wrote them, a run and a GET /api/kpis in progress

vars == <<client, call, req, wire, lock, boot, triggers, job, cron, signals,
          now, sync_state, sync_file, run, wm, store, last, batch, pipe, files, fused,
          calc, recon, listing, resync, hist, snap>>

clientVars == <<client, call, req, wire>>
pipelineVars == <<lock, boot, triggers, job, cron, signals>>
syncVars == <<now, sync_state, sync_file, run>>
storeVars == <<store, last, batch>>
lateVars == <<pipe, files, fused>>
pureVars == <<calc, recon, listing, resync, hist, snap>>
restVars == <<wm, storeVars, lateVars, pureVars>>

----------------------------------------------------------------------------
(* Bounds of the model *)

\* pages a listing is followed for before the server answers with an empty page
MaxPages == 2
\* status filters passed to one list_processes call
MaxStatuses == 2
\* concurrent POST /api/refresh requests
MaxTriggers == 2
\* rows fetched by one sync run
MaxRows == 2
\* last instant of the clock
MaxNow == 2
MaxBatch == 3
MaxEvents == 2
MaxRules == 2
MaxLabel == 3
MaxDepth == 2
MaxWidth == 2
MaxDeliveries == 2
MaxPasses == 3
MaxServerPages == 3
MaxRecords == 2
MaxBeyond == 2
MaxSyncPages == 3

----------------------------------------------------------------------------
(* The resilient client: scripts/acessorias_client.py *)

_MAX_RETRIES == 7

\* no HTTP call was made before / no value
NoGap == 0 - 1

Min(a, b) == IF a < b THEN a ELSE b
Max(a, b) == IF a > b THEN a ELSE b

RECURSIVE Pow2(_)
Pow2(n) == IF n = 0 THEN 1 ELSE 2 * Pow2(n - 1)

\* rate budgets tried: 0 (falls back to 1 call a minute), the default, and one that
\* hits the 0.2 s floor
RateBudgets == {0, 90, 600}

\* __post_init__: self.sleep_seconds = max(0.2, 60.0 / float(budget)), in ms
SleepSeconds(rate_budget) ==
    LET budget == IF rate_budget # 0 THEN rate_budget ELSE 1
    IN  Max(200, 60000 \div budget)

\* random.uniform(0, 1.0), in ms
Jitters == {0, 1000}

\* values of the Retry-After header: missing, numeric, negative, not a number
RetryAfterValues == {"absent", "0", "3", "-1", "soon"}

\* float(retry_after) succeeds
FloatOk(h) == h \in {"0", "3", "-1"}

\* float(retry_after), in ms
FloatMs(h) ==
    CASE h = "0" -> 0
      [] h = "3" -> 3000
      [] h = "-1" -> 0 - 1000
      [] OTHER -> 0

\* bodies of a 2xx answer: JSON null, [], a non-empty list, an object, not JSON
Bodies == {"null", "emptylist", "list", "dict", "garbage"}

\* json_error: what r.json() raises on an undecodable body. JSONDecodeError is a
\* requests.RequestException from requests 2.27 on and a plain ValueError before.
Resp(s, ra, ct, body) ==
    [status |-> s, retry_after |-> ra, ct |-> ct, body |-> body,
     json_error |-> "request_exception"]

\* status 0 stands for requests.RequestException raised by session.get
NetworkError == Resp(0, "absent", "none", "none")
NoResp == Resp(0 - 1, "absent", "none", "none")

\* what the server may answer to one HTTP call; lastPage: the listing's page bound is
\* reached and the server has no more records to send
Responses(lastPage) ==
    {Resp(s, "absent", "json", "error") : s \in {401, 403, 404, 418, 500, 503}}
    \cup {Resp(204, "absent", "none", "none")}
    \cup {Resp(429, ra, "json", "error") : ra \in RetryAfterValues}
    \cup {Resp(200, "absent", ct, b) :
            ct \in {"json", "text"},
            b \in IF lastPage THEN {"null", "emptylist"} ELSE Bodies \ {"garbage"}}
    \cup {Resp(200, "absent", "json", "garbage")}
    \cup (IF lastPage THEN {} ELSE {Resp(200, "absent", "text", "garbage")})
    \cup {[Resp(200, "absent", "json", "garbage") EXCEPT !.json_error = "value_error"]}
    \cup {NetworkError}

\* wait = 2 ** attempt + random.uniform(0, 1.0)
Backoff(attempt, jitter) == Pow2(attempt) * 1000 + jitter

RetryWaitIgnoringHeader(retry_after, attempt, jitter) == Backoff(attempt, jitter)

\* the 429 branch: Retry-After when it parses as a float, else the backoff
RetryWait(retry_after, attempt, jitter) ==
    IF retry_after # "absent"
    THEN IF FloatOk(retry_after) THEN FloatMs(retry_after) ELSE Backoff(attempt, jitter)
    ELSE Backoff(attempt, jitter)

Step(kind, payload, error, wait) ==
    [kind |-> kind, payload |-> payload, error |-> error, wait |-> wait]

\* time.sleep(wait) raises ValueError for a negative wait
SleepThenContinue(wait) ==
    IF wait < 0 THEN Step("raise", "none", "value", 0) ELSE Step("retry", "none", "none", wait)

RequestStepRetrying404(resp, attempt, jitter) ==
    LET s == resp.status
    IN  CASE s = 0 -> SleepThenContinue(Backoff(attempt, jitter))
          [] s = 204 -> Step("return", "emptylist", "none", 0)
          [] s >= 200 /\ s < 300 /\ s # 204 ->
                IF resp.body # "garbage" THEN Step("return", resp.body, "none", 0)
                ELSE IF resp.ct # "json" THEN Step("return", "raw", "none", 0)
                ELSE IF resp.json_error = "request_exception"
                     THEN SleepThenContinue(Backoff(attempt, jitter))
                     ELSE Step("raise", "none", "value", 0)
          [] s \in {401, 403} -> Step("raise", "none", "auth", 0)
          [] s = 429 -> SleepThenContinue(RetryWait(resp.retry_after, attempt, jitter))
          [] s = 404 \/ (s >= 500 /\ s < 600) -> SleepThenContinue(Backoff(attempt, jitter))
          [] OTHER -> Step("raise", "none", "http", 0)

\* one iteration of _request's for loop: what a response makes the loop do
RequestStep(resp, attempt, jitter) ==
    LET s == resp.status
    IN  CASE s = 0 -> SleepThenContinue(Backoff(attempt, jitter))
          [] s = 204 -> Step("return", "emptylist", "none", 0)
          [] s >= 200 /\ s < 300 /\ s # 204 ->
                IF resp.body # "garbage" THEN Step("return", resp.body, "none", 0)
                ELSE IF resp.ct # "json" THEN Step("return", "raw", "none", 0)
                ELSE IF resp.json_error = "request_exception"
                     THEN SleepThenContinue(Backoff(attempt, jitter))
                     ELSE Step("raise", "none", "value", 0)
          [] s \in {401, 403} -> Step("raise", "none", "auth", 0)
          [] s = 404 -> Step("raise", "none", "notfound", 0)
          [] s = 429 -> SleepThenContinue(RetryWait(resp.retry_after, attempt, jitter))
          [] s >= 500 /\ s < 600 -> SleepThenContinue(Backoff(attempt, jitter))
          [] OTHER -> Step("raise", "none", "http", 0)

LoopContinuesOffByOne(attempt) == attempt <= _MAX_RETRIES

LoopContinuesOneShort(attempt) == attempt + 1 < _MAX_RETRIES

\* for attempt in range(1, retries + 1): another iteration follows this one
LoopContinues(attempt) == attempt < _MAX_RETRIES

\* get_process: the path variants tried in order
NumVariants == 4

\* the exception handler of _request ran: session.get raised, or r.json() raised a
\* JSONDecodeError that is a RequestException
Caught(resp) ==
    \/ resp.status = 0
    \/ /\ resp.status = 200
       /\ resp.ct = "json"
       /\ resp.body = "garbage"
       /\ resp.json_error = "request_exception"

\* locals of a _request call before its first iteration
FreshReq ==
    [state |-> "pending", attempt |-> 0, calls |-> 0, only500 |-> TRUE,
     last_status |-> NoGap, last_text |-> "none", last_exc |-> FALSE,
     error |-> "none", payload |-> "none"]

\* no _request call was made yet by the method in progress
NoReq == [FreshReq EXCEPT !.state = "none"]

\* get_process after _request returned payload p for the current path variant
GetProcessNext(c, p) ==
    IF p = "null"
    THEN IF c.variant < NumVariants
         THEN [c EXCEPT !.variant = @ + 1]
         ELSE [c EXCEPT !.state = "raised", !.error = "proc_notfound"]
    ELSE IF p = "emptylist"
         THEN [c EXCEPT !.state = "returned", !.result = "empty"]
         ELSE [c EXCEPT !.state = "returned", !.result = "record"]

\* list_processes after _request returned payload p for the current status and page
ListProcessesNext(c, p) ==
    IF p = "null"
    THEN [c EXCEPT !.state = "raised", !.error = "nodata"]
    ELSE IF p = "emptylist"
         THEN IF c.status_idx < c.nstatus
              THEN [c EXCEPT !.status_idx = @ + 1, !.page = 1]
              ELSE [c EXCEPT !.state = "returned", !.result = "list"]
         ELSE [c EXCEPT !.page = @ + 1]

\* list_processes: time.sleep(self.sleep_seconds) after a page that held records
PageSleep(c, o) ==
    IF o.kind = "return" /\ c.op = "list_processes" /\ o.payload \notin {"null", "emptylist"}
    THEN client.sleep_seconds
    ELSE 0

\* the client method in progress after its _request call ended with outcome o;
\* no client method catches what _request raises
Continue(c, o) ==
    IF o.kind = "raise"
    THEN [c EXCEPT !.state = "raised", !.error = o.error]
    ELSE CASE c.op = "get_process" -> GetProcessNext(c, o.payload)
           [] c.op = "list_processes" -> ListProcessesNext(c, o.payload)
           [] OTHER -> [c EXCEPT !.state = "returned", !.result = o.payload]

IdleCall ==
    [op |-> "none", state |-> "idle", error |-> "none", result |-> "none",
     variant |-> 0, nstatus |-> 0, status_idx |-> 0, page |-> 0]

\* time the caller spends between two client methods, in ms
IdleTimes == {0, 1000}

\* no AcessoriasClient was constructed yet
NoClient == [rate_budget |-> 0, sleep_seconds |-> 0]

InitClient ==
    /\ client = NoClient
    /\ call = IdleCall
    /\ req = NoReq
    /\ wire = [last |-> NoResp, since |-> NoGap]

\* AcessoriasClient(rate_budget=b): __post_init__ derives sleep_seconds
NewClient ==
    /\ client = NoClient
    /\ \E b \in RateBudgets :
          client' = [rate_budget |-> b, sleep_seconds |-> SleepSeconds(b)]
    /\ UNCHANGED <<call, req, wire, pipelineVars, syncVars, restVars>>

\* time passes in the caller; no _request call is in progress
Elapse(idle) ==
    /\ wire' = [last |-> NoResp, since |-> IF wire.since = NoGap THEN NoGap ELSE wire.since + idle]
    /\ req' = NoReq

\* a caller invokes _request directly
StartRequest ==
    /\ client # NoClient
    /\ call.state # "running"
    /\ \E idle \in IdleTimes : Elapse(idle)
    /\ call' = [IdleCall EXCEPT !.op = "request", !.state = "running"]
    /\ UNCHANGED <<client, pipelineVars, syncVars, restVars>>

\* a caller invokes get_process(proc_id)
StartGetProcess ==
    /\ client # NoClient
    /\ call.state # "running"
    /\ \E idle \in IdleTimes : Elapse(idle)
    /\ call' = [IdleCall EXCEPT !.op = "get_process", !.state = "running", !.variant = 1]
    /\ UNCHANGED <<client, pipelineVars, syncVars, restVars>>

\* a caller invokes list_processes(statuses) with n status filters (none counts as one)
StartListProcesses ==
    /\ client # NoClient
    /\ call.state # "running"
    /\ \E idle \in IdleTimes : Elapse(idle)
    /\ \E n \in 1..MaxStatuses :
          call' = [IdleCall EXCEPT !.op = "list_processes", !.state = "running",
                                   !.nstatus = n, !.status_idx = 1, !.page = 1]
    /\ UNCHANGED <<client, pipelineVars, syncVars, restVars>>

\* one iteration of _request's loop: the HTTP call, the handling of its answer, the
\* backoff sleep, and, when _request ends here, the calling method up to its next
\* HTTP call
Attempt ==
    /\ call.state = "running"
    /\ \E resp \in Responses(call.op = "list_processes" /\ call.page >= MaxPages),
          jitter \in Jitters :
          \* the jitter is drawn only on the paths that back off
          /\ (RequestStep(resp, 1, 0).kind # "retry" => jitter = 0)
          /\ LET base == IF req.state = "pending" THEN req ELSE FreshReq
                 attempt == base.attempt + 1
                 h == RequestStep(resp, attempt, jitter)
                 more == h.kind = "retry" /\ LoopContinues(attempt)
                 o == IF h.kind = "retry" /\ ~more
                      THEN Step("raise", "none", "exhausted", h.wait)
                      ELSE h
                 req1 == [base EXCEPT
                            !.attempt = attempt,
                            !.calls = @ + 1,
                            !.only500 = @ /\ resp.status = 500,
                            !.last_status = IF resp.status = 0 THEN @ ELSE resp.status,
                            !.last_text = IF resp.status = 0 THEN @ ELSE resp.body,
                            !.last_exc = @ \/ Caught(resp)]
             IN  /\ wire' = [last |-> resp, since |-> o.wait + PageSleep(call, o)]
                 /\ IF more
                    THEN /\ req' = req1
                         /\ call' = call
                    ELSE /\ req' = [req1 EXCEPT
                                      !.state = IF o.kind = "raise" THEN "raised" ELSE "returned",
                                      !.error = o.error,
                                      !.payload = o.payload]
                         /\ call' = Continue(call, o)
    /\ UNCHANGED <<client, pipelineVars, syncVars, restVars>>

NextClient ==
    \/ NewClient
    \/ StartRequest
    \/ StartGetProcess
    \/ StartListProcesses
    \/ Attempt

----------------------------------------------------------------------------
(* The single-flight guard: scripts/pipeline.py, run_all.py, app/api.py,    *)
(* scripts/scheduler.py                                                     *)

Triggers == 1..MaxTriggers
\* thread ids holding PIPELINE_LOCK: a refresh runner t, the APScheduler job, run_all.main
JobId == MaxTriggers + 1
BootId == MaxTriggers + 2
Free == 0

InitPipeline ==
    /\ lock = Free
    /\ boot = "start"
    /\ triggers = [t \in Triggers |-> [pc |-> "idle", answer |-> 0]]
    /\ job = "idle"
    /\ cron = "off"
    /\ signals = [accepted |-> 0, rejected |-> 0]

\* run_all.main with --serve-only: no initial run, the scheduler and the server start
BootServeOnly ==
    /\ boot = "start"
    /\ boot' = "serving"
    /\ UNCHANGED <<lock, triggers, job, cron, signals, clientVars, syncVars, restVars>>

\* run_all.main: the initial run_pipeline enters `with PIPELINE_LOCK`
BootRunBegin ==
    /\ boot = "start"
    /\ lock = Free
    /\ lock' = BootId
    /\ boot' = "initial_run"
    /\ UNCHANGED <<triggers, job, cron, signals, clientVars, syncVars, restVars>>

\* the initial run ends: normally (the scheduler and the server start) or by an
\* exception, which leaves the with block and ends main
BootRunEnd ==
    /\ boot = "initial_run"
    /\ lock' = Free
    /\ \E ok \in BOOLEAN : boot' = IF ok THEN "serving" ELSE "exited"
    /\ UNCHANGED <<triggers, job, cron, signals, clientVars, syncVars, restVars>>

\* trigger_refresh, first statement: if PIPELINE_LOCK.locked(): return False,
\* which refresh_endpoint turns into HTTP 409
TriggerCheck(t) ==
    /\ boot = "serving"
    /\ triggers[t].pc = "idle"
    /\ IF lock # Free
       THEN /\ triggers' = [triggers EXCEPT ![t].answer = 409]
            /\ signals' = [signals EXCEPT !.rejected = Min(@ + 1, MaxTriggers)]
       ELSE /\ triggers' = [triggers EXCEPT ![t].pc = "checked", ![t].answer = 0]
            /\ UNCHANGED signals
    /\ UNCHANGED <<lock, boot, job, cron, clientVars, syncVars, restVars>>

\* trigger_refresh, rest: thread.start(); return True, answered with HTTP 202
TriggerSpawn(t) ==
    /\ triggers[t].pc = "checked"
    /\ triggers' = [triggers EXCEPT ![t].pc = "spawned", ![t].answer = 202]
    /\ signals' = [signals EXCEPT !.accepted = Min(@ + 1, MaxTriggers)]
    /\ UNCHANGED <<lock, boot, job, cron, clientVars, syncVars, restVars>>

\* _runner -> run_pipeline: `with PIPELINE_LOCK` blocks until the lock is free
RunnerAcquire(t) ==
    /\ triggers[t].pc = "spawned"
    /\ lock = Free
    /\ lock' = t
    /\ triggers' = [triggers EXCEPT ![t].pc = "running"]
    /\ UNCHANGED <<boot, job, cron, signals, clientVars, syncVars, restVars>>

\* a run_pipeline that released the lock only on a normal return
RunnerEndKeepsLockOnRaise(t) ==
    /\ triggers[t].pc = "running"
    /\ \E raised \in BOOLEAN : lock' = IF raised THEN lock ELSE Free
    /\ triggers' = [triggers EXCEPT ![t].pc = "idle"]
    /\ UNCHANGED <<boot, job, cron, signals, clientVars, syncVars, restVars>>

\* run_pipeline returns or raises (caught by _runner): the with block releases the lock
RunnerEnd(t) ==
    /\ triggers[t].pc = "running"
    /\ lock' = Free
    /\ triggers' = [triggers EXCEPT ![t].pc = "idle"]
    /\ UNCHANGED <<boot, job, cron, signals, clientVars, syncVars, restVars>>

\* schedule_jobs: the timer fires and APScheduler submits run_pipeline to its pool
\* (one instance of the job at a time)
JobFire ==
    /\ boot = "serving"
    /\ job = "idle"
    /\ job' = "waiting"
    /\ UNCHANGED <<lock, boot, triggers, cron, signals, clientVars, syncVars, restVars>>

JobAcquire ==
    /\ job = "waiting"
    /\ lock = Free
    /\ lock' = JobId
    /\ job' = "running"
    /\ UNCHANGED <<boot, triggers, cron, signals, clientVars, syncVars, restVars>>

JobEnd ==
    /\ job = "running"
    /\ lock' = Free
    /\ job' = "idle"
    /\ UNCHANGED <<boot, triggers, cron, signals, clientVars, syncVars, restVars>>

\* scripts/scheduler.py main: its own run_pipeline (the fetch and build modules as
\* subprocesses) runs once at start and then on the 3-hour timer, one instance at a
\* time; it never touches PIPELINE_LOCK
CronRunBegin ==
    /\ cron \in {"off", "sleeping"}
    /\ cron' = "running"
    /\ UNCHANGED <<lock, boot, triggers, job, signals, clientVars, syncVars, restVars>>

CronRunEnd ==
    /\ cron = "running"
    /\ cron' = "sleeping"
    /\ UNCHANGED <<lock, boot, triggers, job, signals, clientVars, syncVars, restVars>>

NextPipeline ==
    \/ BootServeOnly
    \/ BootRunBegin
    \/ BootRunEnd
    \/ \E t \in Triggers : TriggerCheck(t)
    \/ \E t \in Triggers : TriggerSpawn(t)
    \/ \E t \in Triggers : RunnerAcquire(t)
    \/ \E t \in Triggers : RunnerEnd(t)
    \/ JobFire
    \/ JobAcquire
    \/ JobEnd
    \/ CronRunBegin
    \/ CronRunEnd

\* full ingestion runs executing now
RunsInProgress ==
    {t \in Triggers : triggers[t].pc = "running"}
    \cup (IF job = "running" THEN {JobId} ELSE {})
    \cup (IF boot = "initial_run" THEN {BootId} ELSE {})
    \cup (IF cron = "running" THEN {BootId + 1} ELSE {})

----------------------------------------------------------------------------
(* The watermark of the sync runs: scripts/pipeline.py, scripts/db.py,      *)
(* scripts/fetch_api.py                                                     *)

\* None: no SyncState row, or a row without last_sync_dh
NoTs == 1 - 1
\* a row field that is missing or empty
Absent == 1 - 1
\* a row field holding text that is no date
Unparseable == 0 - 1

\* instants a row may carry: past, present and later than the clock
Instants == 1..(MaxNow + 1)
FieldValues == {Absent, Unparseable} \cup Instants

Endpoints == {"processes", "deliveries"}

\* db.parse_datetime: None for an empty value and for text dateutil rejects,
\* else the instant in UTC
parse_datetime(value) ==
    IF value = Absent THEN NoTs
    ELSE IF value = Unparseable THEN NoTs
    ELSE value

Row(dh, ev) == [DtLastDH |-> dh, EntDtEvento |-> ev]

\* rows of the process listing (EntDtEvento is a delivery field)
ProcessRows == {Row(dh, Absent) : dh \in FieldValues}
DeliveryRows == {Row(dh, ev) : dh \in FieldValues, ev \in FieldValues}

\* collect_processes: the candidate a row contributes to max_last_dh
ProcessCandidate(row) ==
    IF row.DtLastDH # Absent THEN parse_datetime(row.DtLastDH) ELSE NoTs

\* _deliveries_incremental: the candidate a row contributes to max_last;
\* EntDtEvento is read only when the row has no DtLastDH
DeliveryCandidate(row) ==
    IF row.DtLastDH # Absent
    THEN parse_datetime(row.DtLastDH)
    ELSE IF row.EntDtEvento # Absent
         THEN parse_datetime(row.EntDtEvento)
         ELSE NoTs

NewerLastWins(candidate, max_last) == candidate # NoTs

\* `candidate and (not max_last or candidate > max_last)`
Newer(candidate, max_last) ==
    candidate # NoTs /\ (max_last = NoTs \/ candidate > max_last)

\* collect_processes: `if not max_last_dh: max_last_dh = datetime.now(timezone.utc)`,
\* the value handed to save_sync_state
ProcessesSaved(max_last_dh, clock) ==
    IF max_last_dh = NoTs THEN clock ELSE max_last_dh

\* collect_deliveries: the value handed to save_sync_state. The full path ends with
\* max_last = now; so does the one-month sweep that follows an incremental fetch
\* that returned nothing
DeliveriesSaved(mode, fetched, max_last, clock) ==
    IF mode = "full" THEN clock
    ELSE IF fetched = 0 THEN clock
    ELSE max_last

StateIgnoringReset(reset_sync, stored) == stored

\* `if reset_sync: reset_sync_state(session, endpoint)` followed by
\* get_sync_state(session, endpoint): the row is deleted, so the state read is None
StateAfterReset(reset_sync, stored) ==
    IF reset_sync THEN NoTs ELSE stored

NoRun ==
    [pc |-> "none", kind |-> "none", mode |-> "none", full |-> FALSE, reset |-> FALSE,
     before |-> NoTs, state |-> NoTs, max_last |-> NoTs, fetched |-> 0,
     newest |-> NoTs, saved |-> NoTs, at |-> NoTs, failed |-> FALSE]

InitSync ==
    /\ now = 1
    /\ sync_state = [e \in Endpoints |-> NoTs]
    /\ sync_file = [k \in {"api", "deliveries"} |-> NoTs]
    /\ run = NoRun

\* the clock advances
Tick ==
    /\ now < MaxNow
    /\ now' = now + 1
    /\ UNCHANGED <<sync_state, sync_file, run, clientVars, pipelineVars, restVars>>

\* collect_processes up to its page loop: reset_sync_state when asked (flushed, not
\* yet committed), get_sync_state, the choice of dt_last
BeginProcesses ==
    /\ run.pc # "fetching"
    /\ \E full \in BOOLEAN, reset_sync \in BOOLEAN :
          LET state == StateAfterReset(reset_sync, sync_state["processes"])
          IN  run' = [NoRun EXCEPT
                        !.pc = "fetching", !.kind = "processes",
                        !.mode = IF state # NoTs /\ ~full THEN "incremental" ELSE "full",
                        !.full = full, !.reset = reset_sync,
                        !.before = sync_state["processes"],
                        !.state = state, !.max_last = state]
    /\ UNCHANGED <<now, sync_state, sync_file, clientVars, pipelineVars, restVars>>

\* collect_processes, one page (of one row): upsert_process, the max_last_dh
\* bookkeeping, session.commit(), which also commits a pending reset
ProcessesPage ==
    /\ run.pc = "fetching"
    /\ run.kind = "processes"
    /\ run.fetched < MaxRows
    /\ \E row \in ProcessRows :
          LET candidate == ProcessCandidate(row)
          IN  run' = [run EXCEPT
                        !.fetched = @ + 1,
                        !.newest = Max(@, candidate),
                        !.max_last = IF Newer(candidate, @) THEN candidate ELSE @]
    /\ sync_state' = IF run.reset
                     THEN [sync_state EXCEPT !["processes"] = NoTs]
                     ELSE sync_state
    /\ UNCHANGED <<now, sync_file, clientVars, pipelineVars, restVars>>

\* collect_processes after the loop: save_sync_state, session.commit()
EndProcesses ==
    /\ run.pc = "fetching"
    /\ run.kind = "processes"
    /\ LET saved == ProcessesSaved(run.max_last, now)
       IN  /\ sync_state' = [sync_state EXCEPT !["processes"] = saved]
           /\ run' = [run EXCEPT !.pc = "done", !.saved = saved, !.at = now]
    /\ UNCHANGED <<now, sync_file, clientVars, pipelineVars, restVars>>

\* collect_deliveries up to the fetch: reset when asked, get_sync_state, the choice
\* between _deliveries_full and _deliveries_incremental
BeginDeliveries ==
    /\ run.pc # "fetching"
    /\ \E full \in BOOLEAN, reset_sync \in BOOLEAN :
          LET state == StateAfterReset(reset_sync, sync_state["deliveries"])
          IN  run' = [NoRun EXCEPT
                        !.pc = "fetching", !.kind = "deliveries",
                        !.mode = IF full \/ state = NoTs THEN "full" ELSE "incremental",
                        !.full = full, !.reset = reset_sync,
                        !.before = sync_state["deliveries"],
                        !.state = state, !.max_last = state]
    /\ UNCHANGED <<now, sync_state, sync_file, clientVars, pipelineVars, restVars>>

\* _deliveries_incremental, one page (of one row): upsert_delivery, the max_last
\* bookkeeping, session.commit()
DeliveriesPage ==
    /\ run.pc = "fetching"
    /\ run.kind = "deliveries"
    /\ run.mode = "incremental"
    /\ run.fetched < MaxRows
    /\ \E row \in DeliveryRows :
          LET candidate == DeliveryCandidate(row)
          IN  run' = [run EXCEPT
                        !.fetched = @ + 1,
                        !.newest = Max(@, candidate),
                        !.max_last = IF Newer(candidate, @) THEN candidate ELSE @]
    /\ UNCHANGED <<now, sync_state, sync_file, clientVars, pipelineVars, restVars>>

\* _deliveries_full, one page: upsert_delivery, session.commit(), which also commits
\* a pending reset; the rows' dates are not looked at
DeliveriesFullPage ==
    /\ run.pc = "fetching"
    /\ run.kind = "deliveries"
    /\ run.mode = "full"
    /\ run.fetched < MaxRows
    /\ run' = [run EXCEPT !.fetched = @ + 1]
    /\ sync_state' = IF run.reset
                     THEN [sync_state EXCEPT !["deliveries"] = NoTs]
                     ELSE sync_state
    /\ UNCHANGED <<now, sync_file, clientVars, pipelineVars, restVars>>

\* collect_deliveries after the fetch: the sweep of the last month when the
\* incremental fetch returned nothing, save_sync_state, session.commit()
EndDeliveries ==
    /\ run.pc = "fetching"
    /\ run.kind = "deliveries"
    /\ LET saved == DeliveriesSaved(run.mode, run.fetched, run.max_last, now)
       IN  /\ sync_state' = [sync_state EXCEPT !["deliveries"] = saved]
           /\ run' = [run EXCEPT !.pc = "done", !.saved = saved, !.at = now]
    /\ UNCHANGED <<now, sync_file, clientVars, pipelineVars, restVars>>

\* scripts/fetch_api.py main that ends normally: last_sync of "api" becomes now
FetchApiMain ==
    /\ run.pc # "fetching"
    /\ sync_file' = [sync_file EXCEPT !["api"] = now]
    /\ run' = [NoRun EXCEPT !.pc = "done", !.kind = "fetch_api", !.mode = "incremental",
                            !.before = sync_file["api"], !.state = sync_file["api"],
                            !.saved = now, !.at = now]
    /\ UNCHANGED <<now, sync_state, clientVars, pipelineVars, restVars>>

\* collect_processes or collect_deliveries: a page fetch, an upsert or a commit
\* raises; the exception leaves the function through `finally: session.close()`,
\* which discards what was not committed
CollectFails ==
    /\ run.pc = "fetching"
    /\ run' = [run EXCEPT !.pc = "aborted", !.failed = TRUE, !.at = now]
    /\ UNCHANGED <<now, sync_state, sync_file, clientVars, pipelineVars, restVars>>

\* scripts/fetch_api.py main: list_processes raises, main logs and re-raises
FetchApiMainFails ==
    /\ run.pc # "fetching"
    /\ run' = [NoRun EXCEPT !.pc = "aborted", !.kind = "fetch_api", !.mode = "incremental",
                            !.before = sync_file["api"], !.state = sync_file["api"],
                            !.failed = TRUE, !.at = now]
    /\ UNCHANGED <<now, sync_state, sync_file, clientVars, pipelineVars, restVars>>

\* scripts/fetch_deliveries.py main: fetch_delta_listall logs and skips a date whose
\* fetch raised, main logs a failure of bulk_upsert_deliveries; either way main goes
\* on to write the snapshots and to save last_sync = now
FetchDeliveriesMain ==
    /\ run.pc # "fetching"
    /\ \E fetch_failed \in BOOLEAN, persist_failed \in BOOLEAN :
          run' = [NoRun EXCEPT !.pc = "done", !.kind = "fetch_deliveries",
                               !.mode = "incremental",
                               !.before = sync_file["deliveries"],
                               !.state = sync_file["deliveries"],
                               !.failed = fetch_failed \/ persist_failed,
                               !.saved = now, !.at = now]
    /\ sync_file' = [sync_file EXCEPT !["deliveries"] = now]
    /\ UNCHANGED <<now, sync_state, clientVars, pipelineVars, restVars>>

\* the watermark a run's resource has in its store
Stored(kind) ==
    CASE kind = "processes" -> sync_state["processes"]
      [] kind = "deliveries" -> sync_state["deliveries"]
      [] kind = "fetch_api" -> sync_file["api"]
      [] kind = "fetch_deliveries" -> sync_file["deliveries"]
      [] OTHER -> NoTs

NextSync ==
    \/ Tick
    \/ BeginProcesses
    \/ ProcessesPage
    \/ EndProcesses
    \/ BeginDeliveries
    \/ DeliveriesPage
    \/ DeliveriesFullPage
    \/ EndDeliveries
    \/ FetchApiMain
    \/ CollectFails
    \/ FetchApiMainFails
    \/ FetchDeliveriesMain

----------------------------------------------------------------------------
(* The DtLastDH filter sent to the API: scripts/fetch_api.py,               *)
(* scripts/fetch_deliveries.py, scripts/pipeline.py. Time is counted in     *)
(* steps of five minutes.                                                   *)

\* timedelta(minutes=5)
FiveMinutes == 1
\* timedelta(days=1)
Day == 288

\* times of day of the clock: midnight, just after, noon, just before midnight
TimesOfDay == {0, 1, 144, 287}
Clocks == {4 * Day + t : t \in TimesOfDay}

\* the stored last_sync relative to the clock: days old, around one day old, recent,
\* the clock itself, ahead of the clock
StoredOffsets ==
    {0 - 3 * Day, 0 - Day - 2, 0 - Day, 1 - Day, 0 - 2, 0 - 1, 0, 1, 2, Day}

\* the stored value: missing, text that is no date, or an instant
StoredValues(clock) == {NoTs, Unparseable} \cup {clock + o : o \in StoredOffsets}

\* fetch_api.compute_dt_last_dh (the definition in force, the last one of the file)
FetchApiDtLastDh(last_value) ==
    IF last_value = NoTs THEN NoTs
    ELSE IF last_value = Unparseable THEN NoTs
    ELSE last_value - FiveMinutes

\* fetch_deliveries.compute_dt_last_dh: floor is the start of yesterday
DeliveriesFloor(clock) == (clock - (clock % Day)) - Day

FetchDeliveriesDtLastDh(last_value, clock) ==
    LET floor == DeliveriesFloor(clock)
    IN  IF last_value = NoTs THEN floor
        ELSE IF last_value = Unparseable THEN floor
        ELSE IF last_value - FiveMinutes < floor THEN floor
        ELSE last_value - FiveMinutes

\* collect_processes: dt_last = state.last_sync_dh - timedelta(minutes=5) unless full
CollectProcessesDtLast(last_sync_dh, full) ==
    IF last_sync_dh # NoTs /\ ~full THEN last_sync_dh - FiveMinutes ELSE NoTs

NoWm == [by |-> "none", stored |-> NoTs, clock |-> NoTs, full |-> FALSE, sent |-> NoTs]

InitFilter == wm = NoWm

\* fetch_api.main: load_sync_state, compute_dt_last_dh, list_processes(dt_last_dh=...)
FetchApiFilter ==
    /\ \E clock \in Clocks : \E stored \in StoredValues(clock) :
          wm' = [by |-> "fetch_api", stored |-> stored, clock |-> clock, full |-> FALSE,
                 sent |-> FetchApiDtLastDh(stored)]
    /\ UNCHANGED <<clientVars, pipelineVars, syncVars, pureVars, storeVars, lateVars>>

\* fetch_deliveries.main: compute_dt_last_dh(last_sync), fetch_delta_listall
FetchDeliveriesFilter ==
    /\ \E clock \in Clocks : \E stored \in StoredValues(clock) :
          wm' = [by |-> "fetch_deliveries", stored |-> stored, clock |-> clock,
                 full |-> FALSE, sent |-> FetchDeliveriesDtLastDh(stored, clock)]
    /\ UNCHANGED <<clientVars, pipelineVars, syncVars, pureVars, storeVars, lateVars>>

\* collect_processes: the dt_last_dh handed to client.list_processes; the sync_state
\* table holds an instant or nothing
CollectProcessesFilter ==
    /\ \E clock \in Clocks : \E stored \in StoredValues(clock) \ {Unparseable} :
       \E full \in BOOLEAN :
          wm' = [by |-> "collect_processes", stored |-> stored, clock |-> clock,
                 full |-> full, sent |-> CollectProcessesDtLast(stored, full)]
    /\ UNCHANGED <<clientVars, pipelineVars, syncVars, pureVars, storeVars, lateVars>>

NextFilter ==
    \/ FetchApiFilter
    \/ FetchDeliveriesFilter
    \/ CollectProcessesFilter

----------------------------------------------------------------------------
(* The store: scripts/db.py. A missing or empty payload field is "" (text)  *)
(* or 0 (id); a NULL column likewise. A table is the set of its rows: the   *)
(* autoincrement primary key is left out, and a row's empresa_id is the     *)
(* cnpj of its company, which is unique and never changes once stored.      *)

\* values of a payload's CNPJ: missing, no digit in it, digits, the same digits
\* formatted, other digits
RawCnpjs == {"none", "--", "11", "1.1", "22"}

\* "".join(ch for ch in str(value) if ch.isdigit())
Digits(value) ==
    CASE value = "11" -> "11"
      [] value = "1.1" -> "11"
      [] value = "22" -> "22"
      [] OTHER -> ""

normalize_cnpj_keeps_value(value) == value

\* db.normalize_cnpj: None ("" here) for None and for a value without digits
normalize_cnpj(value) ==
    IF value = "none" THEN "" ELSE Digits(value)

\* the payload fields the upserts read
Payload(emp_id, cnpj, nome, proc_id, proc_status, ent_id, obrigacao, competencia, ent_status) ==
    [EmpresaID |-> emp_id, CNPJ |-> cnpj, EmpNome |-> nome,
     ProcID |-> proc_id, ProcStatus |-> proc_status,
     DeliveryID |-> ent_id, Obrigacao |-> obrigacao, Competencia |-> competencia,
     EntStatus |-> ent_status]

CompanyPayloads ==
    {Payload(e, c, "", 0, "", 0, "", "", "") : e \in {0, 1}, c \in RawCnpjs}

ProcessPayloads ==
    {Payload(0, c, "", pid, st, 0, "", "", "") :
        c \in {"--", "11"}, pid \in {0, 1}, st \in {"A", "C"}}

\* obligation and competency of the delivery payloads
Obligations == {<<"DCTF", "">>, <<"SPED", "">>, <<"DCTF", "2024-01">>}

DeliveryPayloads ==
    {Payload(0, c, "", 0, "", d, o[1], o[2], st) :
        c \in {"--", "11"}, d \in {0, 1}, o \in Obligations,
        st \in {"Pendente", "Entregue"}}

EmptyStore == [companies |-> {}, processes |-> {}, deliveries |-> {}]

\* select(...).where(X.id_acessorias == id): the rows matched
ById(rows, id) ==
    IF id = 0 THEN {} ELSE {r \in rows : r.id_acessorias = id}

ByCnpjNeverFound(rows, cnpj) == {}

\* select(Company).where(Company.cnpj == cnpj): the rows matched
ByCnpj(rows, cnpj) ==
    {r \in rows : r.cnpj = cnpj}

\* rows of deliveries matched by empresa_id, tipo and competencia (NULL matches NULL:
\* SQLAlchemy renders `== None` as IS NULL)
ByTriple(rows, empresa_id, tipo, competencia) ==
    {r \in rows : /\ r.empresa_id = empresa_id
                  /\ r.tipo = tipo
                  /\ r.competencia = competencia}

\* unique=True on id_acessorias (NULLs are distinct): the flushed row against the
\* other rows of its table
IdTaken(others, row) ==
    row.id_acessorias # 0 /\ \E r \in others : r.id_acessorias = row.id_acessorias

\* companies: unique id_acessorias, unique cnpj
CompanyConflict(others, row) ==
    \/ IdTaken(others, row)
    \/ \E r \in others : r.cnpj = row.cnpj

\* deliveries: unique id_acessorias, uq_delivery_empresa_tipo_comp (a row with a NULL
\* in the triple never conflicts)
DeliveryConflict(others, row) ==
    \/ IdTaken(others, row)
    \/ /\ row.tipo # "" /\ row.competencia # ""
       /\ \E r \in others : /\ r.empresa_id = row.empresa_id
                            /\ r.tipo = row.tipo
                            /\ r.competencia = row.competencia

NoRow == [id_acessorias |-> 0]

\* an upsert that raised: nothing of it reaches the committed tables
Failure(db, error) == [ok |-> FALSE, error |-> error, db |-> db, row |-> NoRow]
Success(db, row) == [ok |-> TRUE, error |-> "none", db |-> db, row |-> row]

\* db.upsert_company
upsert_company(db, payload) ==
    LET id_acessorias == payload.EmpresaID
        cnpj == normalize_cnpj(payload.CNPJ)
        rows == db.companies
        by_id == ById(rows, id_acessorias)
        found == IF by_id # {} THEN by_id ELSE ByCnpj(rows, cnpj)
        old == IF found = {}
               THEN [id_acessorias |-> 0, cnpj |-> cnpj, nome |-> payload.EmpNome]
               ELSE CHOOSE r \in found : TRUE
        new == [old EXCEPT
                  !.id_acessorias = IF id_acessorias # 0 THEN id_acessorias ELSE @,
                  !.nome = IF payload.EmpNome # "" THEN payload.EmpNome ELSE @]
        rows1 == (rows \ found) \cup {new}
    IN  IF cnpj = "" THEN Failure(db, "ValueError")
        ELSE IF CompanyConflict(rows \ found, new) THEN Failure(db, "IntegrityError")
        ELSE Success([db EXCEPT !.companies = rows1], new)

\* db.upsert_process
upsert_process(db, payload) ==
    LET proc_id == payload.ProcID
        company == upsert_company(db, payload)
        rows == company.db.processes
        found == ById(rows, proc_id)
        old == IF found = {}
               THEN [id_acessorias |-> proc_id, empresa_id |-> "", status |-> ""]
               ELSE CHOOSE r \in found : TRUE
        new == [old EXCEPT
                  !.empresa_id = company.row.cnpj,
                  !.status = IF payload.ProcStatus # "" THEN payload.ProcStatus ELSE @]
        rows1 == (rows \ found) \cup {new}
    IN  IF proc_id = 0 THEN Failure(db, "ValueError")
        ELSE IF ~company.ok THEN Failure(db, company.error)
        ELSE IF IdTaken(rows \ found, new) THEN Failure(db, "IntegrityError")
        ELSE Success([company.db EXCEPT !.processes = rows1], new)

\* db.upsert_delivery
upsert_delivery(db, payload) ==
    LET company == upsert_company(db, payload)
        delivery_id == payload.DeliveryID
        competencia == payload.Competencia
        tipo == payload.Obrigacao
        rows == company.db.deliveries
        by_id == ById(rows, delivery_id)
        by_triple == IF by_id # {} THEN {}
                     ELSE ByTriple(rows, company.row.cnpj, tipo, competencia)
        found == IF by_id # {} THEN by_id ELSE by_triple
        old == IF found = {}
               THEN [id_acessorias |-> delivery_id, empresa_id |-> "",
                     tipo |-> "", competencia |-> "", situacao |-> ""]
               ELSE CHOOSE r \in found : TRUE
        new == [old EXCEPT
                  !.id_acessorias = IF delivery_id # 0 THEN delivery_id ELSE @,
                  !.empresa_id = company.row.cnpj,
                  !.tipo = IF tipo # "" THEN tipo ELSE @,
                  !.situacao = IF payload.EntStatus # "" THEN payload.EntStatus ELSE @,
                  !.competencia = IF competencia # "" THEN competencia ELSE @]
        rows1 == (rows \ found) \cup {new}
    IN  IF ~company.ok THEN Failure(db, company.error)
        ELSE IF Cardinality(by_triple) > 1 THEN Failure(db, "MultipleResultsFound")
        ELSE IF DeliveryConflict(rows \ found, new) THEN Failure(db, "IntegrityError")
        ELSE Success([company.db EXCEPT !.deliveries = rows1], new)

Kinds == {"company", "process", "delivery"}

Payloads(kind) ==
    CASE kind = "company" -> CompanyPayloads
      [] kind = "process" -> ProcessPayloads
      [] OTHER -> DeliveryPayloads

Upsert(kind, db, payload) ==
    CASE kind = "company" -> upsert_company(db, payload)
      [] kind = "process" -> upsert_process(db, payload)
      [] OTHER -> upsert_delivery(db, payload)

NoLast == [kind |-> "none", error |-> "none"]

NoBatch == [caller |-> "none", kind |-> "none", pc |-> "none", rows |-> <<>>,
            outcomes |-> <<>>, count |-> 0, session |-> EmptyStore]

InitStore ==
    /\ store = EmptyStore
    /\ last = NoLast
    /\ batch = NoBatch


\* one upsert in a transaction of its own: session.commit() after it, or
\* session.rollback()/close() when it raised
UpsertOne(kind) ==
    /\ \E payload \in Payloads(kind) :
          LET r == Upsert(kind, store, payload)
          IN  /\ store' = r.db
              /\ last' = [kind |-> kind, error |-> r.error]
    /\ UNCHANGED <<clientVars, pipelineVars, syncVars, pureVars, lateVars, wm, batch>>

UpsertCompany == UpsertOne("company")
UpsertProcess == UpsertOne("process")
UpsertDelivery == UpsertOne("delivery")

NextStore ==
    \/ UpsertCompany
    \/ UpsertProcess
    \/ UpsertDelivery

----------------------------------------------------------------------------
(* Batches of rows: db.bulk_upsert_* and the page loop of collect_processes *)

\* rows of a batch: two that can be stored and one that fails validation
BatchRows(kind) ==
    CASE kind = "company" ->
            {Payload(0, c, "", 0, "", 0, "", "", "") : c \in {"11", "22", "--"}}
      [] kind = "process" ->
            {Payload(0, "11", "", pid, "C", 0, "", "", "") : pid \in {0, 1}}
            \cup {Payload(0, "--", "", 1, "A", 0, "", "", "")}
      [] OTHER ->
            {Payload(0, c, "", 0, "", 0, "DCTF", "2024-01", "Pendente") : c \in {"11", "--"}}
            \cup {Payload(0, "11", "", 0, "", 0, "SPED", "", "Entregue")}

Batches(kind) ==
    UNION {[1..n -> BatchRows(kind)] : n \in 1..MaxBatch}

BulkCallers == {"bulk_upsert_processes", "bulk_upsert_deliveries", "bulk_upsert_companies"}

Count(outcomes, what) ==
    Cardinality({i \in DOMAIN outcomes : outcomes[i] = what})

\* the rows upserted in a page whose commit was never reached are lost with the session
RolledBack(outcomes) ==
    [i \in DOMAIN outcomes |->
        IF outcomes[i] = "upserted" THEN "rolled_back" ELSE outcomes[i]]

\* a caller opens a session and hands a batch of rows to its row loop
StartBatch(kind, caller) ==
    /\ batch.pc # "rows"
    /\ \E rows \in Batches(kind) :
          batch' = [caller |-> caller, kind |-> kind, pc |-> "rows", rows |-> rows,
                    outcomes |-> <<>>, count |-> 0, session |-> store]
    /\ UNCHANGED <<clientVars, pipelineVars, syncVars, pureVars, lateVars, wm, store, last>>

BulkUpsertProcesses == StartBatch("process", "bulk_upsert_processes")
BulkUpsertDeliveries == StartBatch("delivery", "bulk_upsert_deliveries")
BulkUpsertCompanies == StartBatch("company", "bulk_upsert_companies")
CollectProcessesPage == StartBatch("process", "collect_processes")

\* db.bulk_upsert_*: try: upsert_x(session, row); count += 1
\*                   except Exception: LOG.warning(...)
BulkRow ==
    /\ batch.pc = "rows" /\ batch.caller \in BulkCallers /\ batch.rows # <<>>
    /\ LET r == Upsert(batch.kind, batch.session, Head(batch.rows))
       IN  batch' = [batch EXCEPT
                       !.rows = Tail(@),
                       !.session = r.db,
                       !.outcomes = Append(@, IF r.ok THEN "upserted" ELSE "skipped"),
                       !.count = IF r.ok THEN @ + 1 ELSE @]
    /\ UNCHANGED <<clientVars, pipelineVars, syncVars, pureVars, lateVars, wm, store, last>>

\* db.bulk_upsert_*: session.flush(); return count. The functions leave the commit to
\* their caller, and fetch_deliveries.main, the one caller, closes the session
BulkReturn ==
    /\ batch.pc = "rows" /\ batch.caller \in BulkCallers /\ batch.rows = <<>>
    /\ batch' = [batch EXCEPT !.pc = "done", !.session = store]
    /\ UNCHANGED <<clientVars, pipelineVars, syncVars, pureVars, lateVars, wm, store, last>>

\* collect_processes: for row in batch: upsert_process(session, row)
\* a row that raises ends the call through `finally: session.close()`: the rows
\* after it are never reached, the rows of the page before it are rolled back
PageRow ==
    /\ batch.pc = "rows" /\ batch.caller = "collect_processes" /\ batch.rows # <<>>
    /\ LET r == upsert_process(batch.session, Head(batch.rows))
       IN  batch' =
             IF r.ok
             THEN [batch EXCEPT !.rows = Tail(@), !.session = r.db,
                                !.outcomes = Append(@, "upserted"), !.count = @ + 1]
             ELSE [batch EXCEPT
                     !.pc = "raised", !.rows = <<>>, !.session = store, !.count = 0,
                     !.outcomes = RolledBack(@) \o <<"raised">>
                                  \o [j \in 1..(Len(batch.rows) - 1) |-> "not_reached"]]
    /\ UNCHANGED <<clientVars, pipelineVars, syncVars, pureVars, lateVars, wm, store, last>>

\* collect_processes: session.commit() after the rows of the page
PageCommit ==
    /\ batch.pc = "rows" /\ batch.caller = "collect_processes" /\ batch.rows = <<>>
    /\ store' = batch.session
    /\ batch' = [batch EXCEPT !.pc = "done"]
    /\ UNCHANGED <<clientVars, pipelineVars, syncVars, pureVars, lateVars, wm, last>>

NextBatch ==
    \/ BulkUpsertProcesses
    \/ BulkUpsertDeliveries
    \/ BulkUpsertCompanies
    \/ CollectProcessesPage
    \/ BulkRow
    \/ BulkReturn
    \/ PageRow
    \/ PageCommit

----------------------------------------------------------------------------
(* A run over the resources: pipeline.run_pipeline calls the collectors in  *)
(* sequence, scheduler.run_pipeline runs one module after the other as a    *)
(* subprocess. The snapshot files a step publishes are part of the step.    *)

\* pipeline.run_pipeline: the calls inside `with PIPELINE_LOCK`
PipelineSteps ==
    <<"collect_processes", "collect_deliveries", "collect_companies",
      "build_events", "compute_kpis">>

\* scheduler.run_pipeline: modules
SchedulerModules ==
    <<"fetch_api", "fetch_deliveries", "fetch_companies", "flatten_steps",
      "fetch_email_imap", "fuse_sources", "build_processes_kpis_alerts">>

Steps(runner) ==
    IF runner = "pipeline" THEN PipelineSteps ELSE SchedulerModules

\* the snapshot files of the process and delivery syncs
SnapshotFiles == {"api_processes.json", "raw_api/process_*.json", "deliveries_raw.json",
                  "deliveries.json"}

NoPipe == [runner |-> "none", pc |-> "idle", outcomes |-> <<>>]

InitRun ==
    /\ pipe = NoPipe
    /\ files = [f \in SnapshotFiles |-> "absent"]

\* the step that runs next
Current == Steps(pipe.runner)[Len(pipe.outcomes) + 1]

\* the record of the run after a step that ended with `outcome`
After(outcome) ==
    LET outcomes == Append(pipe.outcomes, outcome)
    IN  [pipe EXCEPT
           !.outcomes = outcomes,
           !.pc = IF outcome = "raised" /\ pipe.runner = "pipeline" THEN "raised"
                  ELSE IF Len(outcomes) = Len(Steps(pipe.runner)) THEN "complete"
                  ELSE "running"]

StartRun(runner) ==
    /\ pipe.pc # "running"
    /\ pipe' = [runner |-> runner, pc |-> "running", outcomes |-> <<>>]
    /\ UNCHANGED <<clientVars, pipelineVars, syncVars, pureVars, wm, storeVars, files, fused>>

\* pipeline.run_pipeline
PipelineRun == StartRun("pipeline")

\* scheduler.run_pipeline
SchedulerRun == StartRun("scheduler")

\* files written by a collector of pipeline.py at its end, after the last commit
Written(step) ==
    CASE step = "collect_processes" -> {"api_processes.json"}
      [] step = "collect_deliveries" -> {"deliveries_raw.json"}
      [] step = "compute_kpis" -> {"deliveries.json"}
      [] OTHER -> {}

\* one call of pipeline.run_pipeline: it returns and its files are written, or it
\* raises; run_pipeline has no try/except, so the exception ends the run
PipelineStep ==
    /\ pipe.pc = "running" /\ pipe.runner = "pipeline"
    /\ \E raised \in BOOLEAN :
          /\ pipe' = After(IF raised THEN "raised" ELSE "ok")
          /\ files' = [f \in SnapshotFiles |->
                          IF ~raised /\ f \in Written(Current) THEN "complete"
                          ELSE files[f]]
    /\ UNCHANGED <<clientVars, pipelineVars, syncVars, pureVars, wm, storeVars, fused>>

\* python -m scripts.fetch_api: ensure_dirs unlinks raw_api/process_*.json, then the
\* listing is fetched; a failure is re-raised, a success writes the files
FetchApiModule ==
    /\ pipe.pc = "running" /\ pipe.runner = "scheduler" /\ Current = "fetch_api"
    /\ \E raised \in BOOLEAN :
          /\ pipe' = After(IF raised THEN "raised" ELSE "ok")
          /\ files' = IF raised
                      THEN [files EXCEPT !["raw_api/process_*.json"] =
                                IF @ = "absent" THEN "absent" ELSE "deleted"]
                      ELSE [files EXCEPT !["raw_api/process_*.json"] = "complete",
                                         !["api_processes.json"] = "complete"]
    /\ UNCHANGED <<clientVars, pipelineVars, syncVars, pureVars, wm, storeVars, fused>>

\* python -m scripts.fetch_deliveries: fetch_delta_listall swallows the error of a
\* date, main writes both snapshots with what was aggregated and ends normally
FetchDeliveriesModule ==
    /\ pipe.pc = "running" /\ pipe.runner = "scheduler" /\ Current = "fetch_deliveries"
    /\ \E fetch_failed \in BOOLEAN :
          /\ pipe' = After(IF fetch_failed THEN "swallowed" ELSE "ok")
          /\ files' = [files EXCEPT
                         !["deliveries_raw.json"] =
                             IF fetch_failed THEN "partial" ELSE "complete",
                         !["deliveries.json"] =
                             IF fetch_failed THEN "partial" ELSE "complete"]
    /\ UNCHANGED <<clientVars, pipelineVars, syncVars, pureVars, wm, storeVars, fused>>

\* the other modules: exit code 0 or not; the scheduler logs a failure and goes on
OtherModule ==
    /\ pipe.pc = "running" /\ pipe.runner = "scheduler"
    /\ Current \notin {"fetch_api", "fetch_deliveries"}
    /\ \E raised \in BOOLEAN : pipe' = After(IF raised THEN "raised" ELSE "ok")
    /\ UNCHANGED <<clientVars, pipelineVars, syncVars, pureVars, wm, storeVars, files, fused>>

NextRun ==
    \/ PipelineRun
    \/ SchedulerRun
    \/ PipelineStep
    \/ FetchApiModule
    \/ FetchDeliveriesModule
    \/ OtherModule

----------------------------------------------------------------------------
(* Fusion of API and e-mail events: merge_events of scripts/fuse_sources.py  *)
(* (the module the scheduler runs) and fuse of the archived copy. An event   *)
(* is a dict; a field that is missing is "" (text) or 0 (id).                *)

\* `id` stands for the fields that identify the event apart from its category and
\* its status (proc_id, subtipo, competencia; in the archived copy source, empresa,
\* subtipo, competencia, prazo, entrega), `descricao` for the text fields
Ev(id, categoria, status, descricao, responsavel) ==
    [id |-> id, categoria |-> categoria, status |-> status, descricao |-> descricao,
     responsavel |-> responsavel]

\* the dict without any field
EmptyEvent == Ev(0, "", "", "", "")

FuseEvents ==
    {Ev(1, "obrigacao", "Pendente", "", ""),
     Ev(1, "obrigacao", "Pendente", "dispensa", "ana"),
     Ev(1, "obrigacao", "Entregue", "", "ana"),
     Ev(1, "processo", "Pendente", "", ""),
     Ev(1, "processo", "Pendente", "dispensa", "ana"),
     Ev(1, "processo", "Entregue", "observacao", ""),
     EmptyEvent, Ev(0, "", "", "observacao", "")}

EventLists ==
    UNION {[1..n -> FuseEvents] : n \in 0..MaxEvents}

\* archived make_key: SHA1 of the identifying fields joined by "||"
make_key(event) == <<event.id, event.status>>

\* create_event_key: (proc_id, categoria, subtipo, competencia)
create_event_key(event) == <<event.id, event.categoria>>

\* event['proc_id'], event['categoria'] of a dict that lacks them: KeyError
HasKeyFields(event) == event.id # 0 /\ event.categoria # ""

\* archived prefer_email: one of "mit", "dispensa", "confirma" in the text fields
prefer_email(event) == event.descricao = "dispensa"

\* bool(dict): an empty dict is falsy
Truthy(event) == event # EmptyEvent

Put(merged, key, event) ==
    [k \in DOMAIN merged \cup {key} |-> IF k = key THEN event ELSE merged[k]]

NoEvents == [k \in {} |-> EmptyEvent]

RECURSIVE SeedFrom(_, _, _, _)
\* for event in api_events: merged[key(event)] = event
SeedFrom(fn, merged, events, i) ==
    IF i > Len(events) THEN merged
    ELSE SeedFrom(fn,
                  Put(merged,
                      IF fn = "fuse" THEN make_key(events[i])
                      ELSE create_event_key(events[i]),
                      events[i]),
                  events, i + 1)

RECURSIVE FuseFrom(_, _, _)
\* archived fuse: the loop over email_events
FuseFrom(merged, events, i) ==
    IF i > Len(events) THEN merged
    ELSE LET event == events[i]
             key == make_key(event)
             absent == key \notin DOMAIN merged
         IN  FuseFrom(
                 IF absent \/ ~Truthy(merged[key]) THEN Put(merged, key, event)
                 ELSE IF merged[key].categoria = "obrigacao"
                         /\ event.categoria = "obrigacao" THEN merged
                 ELSE IF prefer_email(event) THEN Put(merged, key, event)
                 ELSE merged,
                 events, i + 1)

\* archived fuse(api_events, email_events): the merged map
fuse(api_events, email_events) ==
    FuseFrom(SeedFrom("fuse", NoEvents, api_events, 1), email_events, 1)

RECURSIVE MergeFrom(_, _, _, _)
\* merge_events: the loop over email_events; a key of the API index keeps the API
\* event, enriched with the e-mail's responsavel when it has none; any other key is
\* assigned the e-mail event
MergeFrom(merged, api_keys, events, i) ==
    IF i > Len(events) THEN merged
    ELSE LET event == events[i]
             key == create_event_key(event)
         IN  MergeFrom(
                 IF key \in api_keys
                 THEN IF merged[key].responsavel = "" /\ event.responsavel # ""
                      THEN Put(merged, key,
                               [merged[key] EXCEPT !.responsavel = event.responsavel])
                      ELSE merged
                 ELSE Put(merged, key, event),
                 api_keys, events, i + 1)

\* merge_events(api_events, email_events): the merged map
merge_events(api_events, email_events) ==
    LET seeded == SeedFrom("merge_events", NoEvents, api_events, 1)
    IN  MergeFrom(seeded, DOMAIN seeded, email_events, 1)

\* the n-th smallest index of a set of indices
Nth(indices, n) ==
    CHOOSE i \in indices : Cardinality({x \in indices : x < i}) = n - 1

\* the entries made at the indices of a set, in increasing order of index
Entries(indices, Entry(_)) ==
    [n \in 1..Cardinality(indices) |-> Entry(Nth(indices, n))]

\* the keys of a list of events in order of first occurrence: a dict keeps its keys in
\* insertion order, and an assignment to a key it holds leaves the key in place
FirstKeys(fn, events) ==
    LET key(i) == IF fn = "fuse" THEN make_key(events[i]) ELSE create_event_key(events[i])
    IN  Entries({i \in DOMAIN events : \A j \in 1..(i - 1) : key(j) # key(i)}, key)

ValuesInHashOrder(merged, keys, seed) ==
    [n \in DOMAIN keys |->
        merged[keys[IF seed = 0 THEN n ELSE Len(keys) + 1 - n]]]

\* list(merged.values()): the records in the insertion order of their keys, whatever
\* the hash seed of the interpreter that runs the module
Values(merged, keys, seed) ==
    [n \in DOMAIN keys |-> merged[keys[n]]]

\* archived fuse: the map when the loop reaches email_events[i]
FuseBefore(api_events, email_events, i) ==
    FuseFrom(SeedFrom("fuse", NoEvents, api_events, 1), SubSeq(email_events, 1, i - 1), 1)

\* archived fuse: the indices of the e-mail events assigned over the record of a key
\* the map holds, through `if not existing` (an empty record) or through prefer_email
FuseAssigned(api_events, email_events, preferred) ==
    {i \in DOMAIN email_events :
        LET merged == FuseBefore(api_events, email_events, i)
            event == email_events[i]
            key == make_key(event)
        IN  /\ key \in DOMAIN merged
            /\ IF ~Truthy(merged[key]) THEN ~preferred
               ELSE /\ ~(merged[key].categoria = "obrigacao"
                         /\ event.categoria = "obrigacao")
                    /\ prefer_email(event)
                    /\ preferred}

\* archived fuse: divergences.append({"key": key, "api": existing, "email": event})
FuseDivergences(api_events, email_events) ==
    LET Entry(i) == [key |-> make_key(email_events[i]),
                     api |-> FuseBefore(api_events, email_events, i)[make_key(email_events[i])],
                     email |-> email_events[i]]
    IN  Entries(FuseAssigned(api_events, email_events, TRUE), Entry)

\* archived fuse: (old record, new record) of every assignment over a key the map holds
FuseReplaced(api_events, email_events) ==
    LET Entry(i) == [old |-> FuseBefore(api_events, email_events, i)[make_key(email_events[i])],
                     new |-> email_events[i]]
    IN  Entries(FuseAssigned(api_events, email_events, TRUE)
                \cup FuseAssigned(api_events, email_events, FALSE), Entry)

\* merge_events: the API index
ApiIndex(api_events) == SeedFrom("merge_events", NoEvents, api_events, 1)

\* merge_events: divergences.append({..., 'api_status': ..., 'email_status': ...}) when
\* the key is in the API index and the statuses differ
MergeDivergences(api_events, email_events) ==
    LET index == ApiIndex(api_events)
        Entry(i) == [key |-> create_event_key(email_events[i]),
                     api_status |-> index[create_event_key(email_events[i])].status,
                     email_status |-> email_events[i].status]
    IN  Entries({i \in DOMAIN email_events :
                    /\ create_event_key(email_events[i]) \in DOMAIN index
                    /\ index[create_event_key(email_events[i])].status
                          # email_events[i].status},
                Entry)

\* merge_events: (old record, new record) of every assignment over a key the map holds:
\* an e-mail event over an earlier e-mail event of a key the API index lacks
MergeReplaced(api_events, email_events) ==
    LET index == ApiIndex(api_events)
        key(i) == create_event_key(email_events[i])
        Earlier(i) == {j \in 1..(i - 1) : key(j) = key(i)}
        Entry(i) == [old |-> email_events[Nth(Earlier(i), Cardinality(Earlier(i)))],
                     new |-> email_events[i]]
    IN  Entries({i \in DOMAIN email_events :
                    key(i) \notin DOMAIN index /\ Earlier(i) # {}}, Entry)

\* the hash seed of the interpreter of a run (PYTHONHASHSEED)
Seeds == {0, 1}

NoAgain == [seed |-> 0, events |-> <<>>, divergences |-> <<>>, ran |-> FALSE]

NoFused == [fn |-> "none", primary |-> <<>>, secondary |-> <<>>, error |-> "none",
            merged |-> NoEvents, seed |-> 0, events |-> <<>>, divergences |-> <<>>,
            replaced |-> <<>>, again |-> NoAgain]

InitFuse == fused = NoFused

\* one call of the archived fuse on two event lists
Fuse ==
    /\ fused = NoFused
    /\ \E api_events \in EventLists, email_events \in EventLists, seed \in Seeds :
          fused' = [fn |-> "fuse", primary |-> api_events, secondary |-> email_events,
                    error |-> "none", merged |-> fuse(api_events, email_events),
                    seed |-> seed,
                    events |-> Values(fuse(api_events, email_events),
                                      FirstKeys("fuse", api_events \o email_events), seed),
                    divergences |-> FuseDivergences(api_events, email_events),
                    replaced |-> FuseReplaced(api_events, email_events),
                    again |-> NoAgain]
    /\ UNCHANGED <<clientVars, pipelineVars, syncVars, pureVars, wm, storeVars, pipe, files>>

\* one call of merge_events on two event lists
MergeEvents ==
    /\ fused = NoFused
    /\ \E api_events \in EventLists, email_events \in EventLists, seed \in Seeds :
          LET all == api_events \o email_events
              keyed == \A i \in DOMAIN all : HasKeyFields(all[i])
          IN  fused' =
                IF ~keyed
                THEN [NoFused EXCEPT !.fn = "merge_events", !.primary = api_events,
                                     !.secondary = email_events, !.error = "KeyError",
                                     !.seed = seed]
                ELSE [fn |-> "merge_events", primary |-> api_events,
                      secondary |-> email_events, error |-> "none",
                      merged |-> merge_events(api_events, email_events),
                      seed |-> seed,
                      events |-> Values(merge_events(api_events, email_events),
                                        FirstKeys("merge_events", all), seed),
                      divergences |-> MergeDivergences(api_events, email_events),
                      replaced |-> MergeReplaced(api_events, email_events),
                      again |-> NoAgain]
    /\ UNCHANGED <<clientVars, pipelineVars, syncVars, pureVars, wm, storeVars, pipe, files>>

\* a second run of the same function on the same two lists, in an interpreter of its own
FuseAgain ==
    /\ fused.fn # "none" /\ fused.error = "none" /\ ~fused.again.ran
    /\ \E seed \in Seeds :
          LET api_events == fused.primary
              email_events == fused.secondary
              keys == FirstKeys(fused.fn, api_events \o email_events)
          IN  fused' = [fused EXCEPT !.again =
                [seed |-> seed, ran |-> TRUE,
                 events |-> IF fused.fn = "fuse"
                            THEN Values(fuse(api_events, email_events), keys, seed)
                            ELSE Values(merge_events(api_events, email_events), keys, seed),
                 divergences |-> IF fused.fn = "fuse"
                                 THEN FuseDivergences(api_events, email_events)
                                 ELSE MergeDivergences(api_events, email_events)]]
    /\ UNCHANGED <<clientVars, pipelineVars, syncVars, pureVars, wm, storeVars, pipe, files>>

NextFuse ==
    \/ Fuse
    \/ MergeEvents
    \/ FuseAgain

----------------------------------------------------------------------------
(* The reconciliation pass: build_events of scripts/pipeline.py, with        *)
(* clear_events and upsert_event of scripts/db.py. A stored process or       *)
(* delivery is the version of its raw payload, 0 when the row is absent.     *)

ProcIds == {1, 2}
DeliveryIds == {1}
Versions == {1, 2}

\* _flatten_process_events(proc, rules) of a stored process: version 1 has one step
\* that matches a rule, version 2 two steps that match the same rule
ProcessEventsOf(id, version) ==
    LET evt == [source |-> "process", proc_id |-> id, subtipo |-> "reinf"]
    IN  IF version = 1 THEN <<evt>> ELSE <<evt, evt>>

\* _delivery_to_event(delivery) of a stored delivery
DeliveryEventOf(id, version) ==
    [source |-> "delivery", proc_id |-> id,
     subtipo |-> IF version = 1 THEN "Pendente" ELSE "Entregue"]

RECURSIVE EventsOfProcesses(_, _)
\* the loop over session.query(Process).all()
EventsOfProcesses(processes, id) ==
    IF id \notin DOMAIN processes THEN <<>>
    ELSE (IF processes[id] = 0 THEN <<>> ELSE ProcessEventsOf(id, processes[id]))
         \o EventsOfProcesses(processes, id + 1)

\* the loop over session.query(Delivery).all()
EventsOfDeliveries(deliveries) ==
    IF deliveries[1] = 0 THEN <<>> ELSE <<DeliveryEventOf(1, deliveries[1])>>

clear_events_keeps_rows(events) == events

\* db.clear_events: session.query(Event).delete()
clear_events(events) == <<>>

NoRecon ==
    [pc |-> "idle", processes |-> [id \in ProcIds |-> 0],
     deliveries |-> [id \in DeliveryIds |-> 0],
     events |-> <<>>, serialized |-> <<>>, published |-> <<>>,
     previous |-> <<>>, passes |-> 0]

InitRecon == recon = NoRecon

\* a collector stores a process between two passes (upsert_process)
StoreProcess ==
    /\ recon.pc \in {"idle", "done", "raised"}
    /\ \E id \in ProcIds, version \in Versions :
          /\ recon.processes[id] # version
          /\ recon' = [recon EXCEPT !.processes[id] = version, !.pc = "idle"]
    /\ UNCHANGED <<clientVars, pipelineVars, syncVars, wm, storeVars, lateVars, calc, listing, resync, hist, snap>>

\* a collector stores a delivery between two passes (upsert_delivery)
StoreDelivery ==
    /\ recon.pc \in {"idle", "done", "raised"}
    /\ \E id \in DeliveryIds, version \in Versions :
          /\ recon.deliveries[id] # version
          /\ recon' = [recon EXCEPT !.deliveries[id] = version, !.pc = "idle"]
    /\ UNCHANGED <<clientVars, pipelineVars, syncVars, wm, storeVars, lateVars, calc, listing, resync, hist, snap>>

\* build_events: clear_events(session); session.commit()
BuildEventsClear ==
    /\ recon.pc \in {"idle", "done", "raised"}
    /\ recon.passes < MaxPasses
    /\ recon' = [recon EXCEPT !.pc = "cleared",
                              !.events = clear_events(@),
                              !.serialized = <<>>,
                              !.passes = @ + 1]
    /\ UNCHANGED <<clientVars, pipelineVars, syncVars, wm, storeVars, lateVars, calc, listing, resync, hist, snap>>

\* build_events: the loop over the processes, upsert_event adds a row for every
\* event; session.commit()
BuildEventsProcesses ==
    /\ recon.pc = "cleared"
    /\ LET events == EventsOfProcesses(recon.processes, 1)
       IN  recon' = [recon EXCEPT !.pc = "processes",
                                  !.events = @ \o events,
                                  !.serialized = @ \o events]
    /\ UNCHANGED <<clientVars, pipelineVars, syncVars, wm, storeVars, lateVars, calc, listing, resync, hist, snap>>

\* build_events: the loop over the deliveries; session.commit()
BuildEventsDeliveries ==
    /\ recon.pc = "processes"
    /\ LET events == EventsOfDeliveries(recon.deliveries)
       IN  recon' = [recon EXCEPT !.pc = "deliveries",
                                  !.events = @ \o events,
                                  !.serialized = @ \o events]
    /\ UNCHANGED <<clientVars, pipelineVars, syncVars, wm, storeVars, lateVars, calc, listing, resync, hist, snap>>

\* build_events: _write_json(FILES["events"], serialized); return serialized
BuildEventsWrite ==
    /\ recon.pc = "deliveries"
    /\ recon' = [recon EXCEPT !.pc = "done",
                              !.published = recon.serialized,
                              !.previous = recon.published]
    /\ UNCHANGED <<clientVars, pipelineVars, syncVars, wm, storeVars, lateVars, calc, listing, resync, hist, snap>>

\* build_events: an exception in the step that comes next; the rows added since the
\* last commit go with the session, the file is not written
BuildEventsRaise ==
    /\ recon.pc \in {"cleared", "processes", "deliveries"}
    /\ recon' = [recon EXCEPT !.pc = "raised", !.serialized = <<>>]
    /\ UNCHANGED <<clientVars, pipelineVars, syncVars, wm, storeVars, lateVars, calc, listing, resync, hist, snap>>

NextEvents ==
    \/ StoreProcess
    \/ StoreDelivery
    \/ BuildEventsClear
    \/ BuildEventsProcesses
    \/ BuildEventsDeliveries
    \/ BuildEventsWrite
    \/ BuildEventsRaise

----------------------------------------------------------------------------
(* Alerts: build_alerts of scripts/build_processes_kpis_alerts.py (the      *)
(* module the scheduler runs) and build_alerts of the archived copy. A date *)
(* is a day number, 1 for 2024-06-01; 0 is no date.                         *)

NoCalc == [fn |-> "none"]

InitPure == calc = NoCalc

\* deadlines.get("reinf_day", 15), deadlines.get("efd_contrib_day", 20),
\* deadlines.get("risk_window_days", 5); deadlines['sn_day']
reinf_day == 15
efd_contrib_day == 20
risk_window_days == 5
sn_day == 20

\* date.today() of a run
Todays == {5, 10, 12, 15, 16}

\* the prazo of an event: none, or a date
Prazos == {0, 12, 20}

\* str(value).lower() of a passo_status; "" is None
Lower(value) ==
    CASE value = "OK" -> "ok"
      [] value = "Pendente" -> "pendente"
      [] OTHER -> "none"

\* the events of the archived events file: obligation events of delivery_events and
\* of the e-mail reader, which carry no bloqueante, and process_step events of
\* flatten_proc
ObligationEvents ==
    {[categoria |-> "obrigacao", subtipo |-> subtipo, status |-> status, prazo |-> prazo,
      entrega |-> IF status = "Entregue" THEN 10 ELSE 0,
      bloqueante |-> FALSE, passo_status |-> ""] :
        subtipo \in {"EFD-Reinf", "EFD Contribuicoes", "DCTF"},
        status \in {"Pendente", "Entregue"}, prazo \in Prazos}

StepEvents ==
    {[categoria |-> "process_step", subtipo |-> "EFD-Reinf", status |-> "Pendente",
      prazo |-> prazo, entrega |-> 0, bloqueante |-> bloqueante,
      passo_status |-> passo_status] :
        prazo \in {0, 20}, bloqueante \in BOOLEAN, passo_status \in {"OK", "Pendente", ""}}

\* the events of events.json of scripts/: events of process_step_to_event, whose
\* categoria is the rule's, and events of the e-mail reader ('bloqueante': None)
ScriptEvent(source, prazo, bloqueante, passo_status) ==
    [source |-> source, categoria |-> "efd_reinf", prazo |-> prazo,
     bloqueante |-> bloqueante, passo_status |-> passo_status]

ScriptEvents ==
    {ScriptEvent("api", 0, TRUE, "Pendente"), ScriptEvent("api", 20, TRUE, "Pendente"),
     ScriptEvent("api", 0, TRUE, "OK"), ScriptEvent("api", 0, FALSE, "Pendente"),
     ScriptEvent("email", 0, FALSE, "")}

\* the processes of build_processes; prazo is the prazo of the events of the process,
\* which the process record does not carry
ScriptProcess(competencia, conclusao, efd_reinf, prazo) ==
    [competencia |-> competencia, conclusao |-> conclusao, efd_reinf |-> efd_reinf,
     prazo |-> prazo]

ScriptProcesses ==
    {ScriptProcess("2024-06", 0, "Obrigatoria", 0),
     ScriptProcess("2024-06", 0, "Obrigatoria", 20),
     ScriptProcess("2024-06", 0, "Dispensada", 0),
     ScriptProcess("2024-06", 0, "Dispensada", 20),
     ScriptProcess("2024-06", 10, "Obrigatoria", 0),
     ScriptProcess("", 0, "Obrigatoria", 0)}

\* a list of up to MaxEvents rows of a set; the row at position i gets proc_id i
Numbered(rows) ==
    UNION {[1..n -> rows] : n \in 0..MaxEvents}

NoAlerts ==
    [reinf_em_risco |-> <<>>, efd_contrib_em_risco |-> <<>>, sn_em_risco |-> <<>>,
     bloqueantes |-> <<>>]

\* archived due_within
due_within(due, today) ==
    LET delta == due - today
    IN  0 <= delta /\ delta <= risk_window_days

\* list.sort(key=prazo or ""): a stable sort
SortByPrazo(alerts) ==
    LET Rank(i) == Cardinality({j \in DOMAIN alerts : alerts[j].prazo < alerts[i].prazo})
                   + Cardinality({j \in 1..i : alerts[j].prazo = alerts[i].prazo})
    IN  [n \in DOMAIN alerts |-> alerts[CHOOSE i \in DOMAIN alerts : Rank(i) = n]]

IsBlockingAnyStatus(event) ==
    /\ event.categoria = "process_step"
    /\ event.bloqueante

\* archived build_alerts: the condition of the bloqueantes branch
IsBlocking(event) ==
    /\ event.categoria = "process_step"
    /\ event.bloqueante
    /\ Lower(event.passo_status) # "ok"

\* archived build_alerts: the list an obligation event is aimed at
TargetList(event) ==
    IF event.subtipo = "EFD-Reinf" THEN "reinf_em_risco"
    ELSE IF event.subtipo = "EFD Contribuicoes" THEN "efd_contrib_em_risco"
    ELSE "none"

\* archived build_alerts: the body of the loop for events[i]
AlertStep(alerts, events, i, today) ==
    LET event == events[i]
        target == TargetList(event)
        deadline_date ==
            IF event.prazo # 0 THEN event.prazo
            ELSE IF target = "reinf_em_risco" THEN reinf_day ELSE efd_contrib_day
    IN  IF IsBlocking(event)
        THEN [alerts EXCEPT !.bloqueantes =
                 Append(@, [proc_id |-> i, prazo |-> event.prazo])]
        ELSE IF event.categoria # "obrigacao" THEN alerts
        ELSE IF event.entrega # 0 /\ event.status = "Entregue" THEN alerts
        \* `if not target_list: continue`: no list, or a list that is still empty
        ELSE IF target = "none" THEN alerts
        ELSE IF alerts[target] = <<>> THEN alerts
        ELSE IF due_within(deadline_date, today)
        THEN [alerts EXCEPT ![target] =
                 Append(@, [proc_id |-> i, prazo |-> deadline_date])]
        ELSE alerts

RECURSIVE AlertsFrom(_, _, _, _)
AlertsFrom(alerts, events, i, today) ==
    IF i > Len(events) THEN alerts
    ELSE AlertsFrom(AlertStep(alerts, events, i, today), events, i + 1, today)

\* archived build_alerts(events, cfg)
archived_build_alerts(events, today) ==
    LET alerts == AlertsFrom(NoAlerts, events, 1, today)
    IN  [alerts EXCEPT !.reinf_em_risco = SortByPrazo(@),
                       !.efd_contrib_em_risco = SortByPrazo(@),
                       !.bloqueantes = SortByPrazo(@)]

\* build_alerts of scripts/: the alerts of the processes in one list; datetime(ano,
\* mes, day) of competencia 2024-06 is the day itself
RiskOf(processes, today, day, Needs(_)) ==
    Entries({i \in DOMAIN processes :
                /\ processes[i].competencia # ""
                /\ processes[i].conclusao = 0
                /\ Needs(processes[i])
                /\ 0 <= day - today
                /\ day - today <= risk_window_days},
            LAMBDA i : [proc_id |-> i, prazo |-> day])

\* build_alerts(events, processes, config) of scripts/
build_alerts(events, processes, today) ==
    [NoAlerts EXCEPT
        !.sn_em_risco = RiskOf(processes, today, sn_day, LAMBDA proc : TRUE),
        !.reinf_em_risco = RiskOf(processes, today, reinf_day,
                                  LAMBDA proc : proc.efd_reinf = "Obrigatoria"),
        !.bloqueantes =
            Entries({i \in DOMAIN events :
                        events[i].bloqueante /\ events[i].passo_status # "OK"},
                    LAMBDA i : [proc_id |-> i, prazo |-> events[i].prazo])]

\* the archived build_alerts on a list of events
ArchivedBuildAlerts ==
    /\ calc = NoCalc
    /\ \E today \in Todays, events \in Numbered(ObligationEvents \cup StepEvents) :
          calc' = [fn |-> "archived_build_alerts", today |-> today, events |-> events,
                   processes |-> <<>>,
                   alerts |-> archived_build_alerts(events, today)]
    /\ UNCHANGED <<clientVars, pipelineVars, syncVars, wm, storeVars, lateVars, recon, listing, resync, hist, snap>>

\* build_alerts of scripts/ on a list of events and a list of processes
BuildAlerts ==
    /\ calc = NoCalc
    /\ \E today \in Todays, events \in Numbered(ScriptEvents),
          processes \in Numbered(ScriptProcesses) :
          calc' = [fn |-> "build_alerts", today |-> today, events |-> events,
                   processes |-> processes,
                   alerts |-> build_alerts(events, processes, today)]
    /\ UNCHANGED <<clientVars, pipelineVars, syncVars, wm, storeVars, lateVars, recon, listing, resync, hist, snap>>

NextAlerts ==
    \/ ArchivedBuildAlerts
    \/ BuildAlerts

----------------------------------------------------------------------------
(* Rule matching: _match_rule of scripts/pipeline.py, match_step of          *)
(* scripts/flatten_steps.py and match_rule of the archived flatten_steps.py. *)
(* A text is a sequence of characters.                                       *)

Chars == {"a", "A", "b"}

Texts(n) == UNION {[1..k -> Chars] : k \in 0..n}

KeepCase(text) == text

\* str.lower()
LowerText(text) ==
    [i \in DOMAIN text |-> IF text[i] = "A" THEN "a" ELSE text[i]]

\* needle in text
Occurs(needle, text) ==
    \E k \in 0..(Len(text) - Len(needle)) :
        SubSeq(text, k + 1, k + Len(needle)) = needle

\* a rule of the rule table: 'contains' and, for match_step, 'tags'
Rules ==
    {[contains |-> contains, tags |-> tags] :
        contains \in {<<>>, <<"A">>, <<"b">>, <<"a", "b">>},
        tags \in {<<>>, << <<"b">> >>, << <<"A">> >>}}

RuleLists == UNION {[1..n -> Rules] : n \in 0..MaxRules}

\* the first index of a set of indices, 0 for None
FirstOf(indices) ==
    IF indices = {} THEN 0 ELSE CHOOSE i \in indices : \A j \in indices : i <= j

\* pipeline._match_rule(name, rules): the index of the rule returned, 0 for None
_match_rule(name, rules) ==
    LET low == LowerText(name)
    IN  FirstOf({i \in DOMAIN rules :
                    LET needle == LowerText(rules[i].contains)
                    IN  needle # <<>> /\ Occurs(needle, low)})

\* archived match_rule(name, rules)
match_rule(name, rules) ==
    LET low == LowerText(name)
    IN  FirstOf({i \in DOMAIN rules :
                    LET needle == LowerText(rules[i].contains)
                    IN  needle # <<>> /\ Occurs(needle, low)})

\* flatten_steps.match_step(step_name, rules): 'contains', then each tag
match_step(step_name, rules) ==
    FirstOf({i \in DOMAIN rules :
                \/ Occurs(LowerText(rules[i].contains), LowerText(step_name))
                \/ \E t \in DOMAIN rules[i].tags :
                      Occurs(LowerText(rules[i].tags[t]), LowerText(step_name))})

Matchers == {"_match_rule", "match_rule", "match_step"}

Match(fn) ==
    /\ calc = NoCalc
    /\ \E name \in Texts(MaxLabel), rules \in RuleLists :
          calc' = [fn |-> fn, name |-> name, rules |-> rules,
                   rule |-> CASE fn = "_match_rule" -> _match_rule(name, rules)
                              [] fn = "match_rule" -> match_rule(name, rules)
                              [] OTHER -> match_step(name, rules)]
    /\ UNCHANGED <<clientVars, pipelineVars, syncVars, wm, storeVars, lateVars, recon, listing, resync, hist, snap>>

PipelineMatchRule == Match("_match_rule")

ArchivedMatchRule == Match("match_rule")

MatchStep == Match("match_step")

NextMatch ==
    \/ PipelineMatchRule
    \/ ArchivedMatchRule
    \/ MatchStep

----------------------------------------------------------------------------
(* The step tree: _flatten_process_events of scripts/pipeline.py and         *)
(* flatten_proc of the archived flatten_steps.py. A step is Nome, the Nome   *)
(* of its Automacao.Entrega and its ProcPassos; a path is the position of a  *)
(* step in the tree.                                                         *)

Passo(nome, entrega, sub) == [nome |-> nome, entrega |-> entrega, sub |-> sub]

\* Nome and Entrega.Nome of a step: a name that matches the rule, one that does not,
\* no name, and a name that does not match with a delivery name that does
StepNames == {<< <<"a">>, <<>> >>, << <<"b">>, <<>> >>, << <<>>, <<>> >>,
              << <<"b">>, <<"A">> >>}

RECURSIVE Trees(_)
\* the step trees of a depth
Trees(depth) ==
    {Passo(name[1], name[2], sub) :
        name \in StepNames,
        sub \in IF depth = 1 THEN {<<>>}
                ELSE UNION {[1..n -> Trees(depth - 1)] : n \in 0..MaxWidth}}

\* raw["ProcPassos"]
Passos == UNION {[1..n -> Trees(MaxDepth)] : n \in 0..MaxWidth}

\* the rule table of a run
FlattenRules == << [contains |-> <<"A">>, tags |-> <<>>] >>

\* f"{nome} | {nome_entrega}" when the delivery has a name, else nome
Label(nome, nome_entrega) ==
    IF nome_entrega # <<>> THEN nome \o <<" ", "|", " ">> \o nome_entrega ELSE nome

\* item.get("Nome") or item.get("Descricao") or parent; the archived walk has no parent
Nome(fn, item, parent) ==
    IF item.nome # <<>> THEN item.nome
    ELSE IF fn = "_flatten_process_events" THEN parent ELSE <<>>

SubOfMatched(item, matched) == IF matched THEN item.sub ELSE <<>>

\* sub = item.get("ProcPassos") or [], walked whether the step matched or not
SubOf(item, matched) == item.sub

RECURSIVE walk(_, _, _, _, _)
\* walk(items, parent) from items[i] on: the events appended, in order
walk(fn, items, i, path, parent) ==
    IF i > Len(items) THEN <<>>
    ELSE LET item == items[i]
             nome == Nome(fn, item, parent)
             label == Label(nome, item.entrega)
             rule == IF fn = "_flatten_process_events"
                     THEN _match_rule(label, FlattenRules)
                     ELSE match_rule(label, FlattenRules)
         IN  (IF rule # 0 THEN << [path |-> Append(path, i), rule |-> rule] >> ELSE <<>>)
             \o walk(fn, SubOf(item, rule # 0), 1, Append(path, i), nome)
             \o walk(fn, items, i + 1, path, parent)

Flatten(fn) ==
    /\ calc = NoCalc
    /\ \E passos \in Passos :
          calc' = [fn |-> fn, passos |-> passos,
                   events |-> walk(fn, passos, 1, <<>>, <<>>)]
    /\ UNCHANGED <<clientVars, pipelineVars, syncVars, wm, storeVars, lateVars, recon, listing, resync, hist, snap>>

\* pipeline._flatten_process_events(proc, rules)
FlattenProcessEvents == Flatten("_flatten_process_events")

\* the archived flatten_proc(proc, rules)
FlattenProc == Flatten("flatten_proc")

NextFlatten ==
    \/ FlattenProcessEvents
    \/ FlattenProc

----------------------------------------------------------------------------
(* Delivery records as events: _delivery_to_event of scripts/pipeline.py and *)
(* delivery_events of the archived flatten_steps.py. "" is a missing field.  *)

\* EntDtEntrega, EntDtAtraso and EntStatus of a delivery payload
DeliveryRecords ==
    [EntDtEntrega : {"", "2024-06-10", "10/06/2024", "1/2"},
     EntDtAtraso : {"", "2024-06-01"},
     EntStatus : {"", "Pendente", "Atrasada", "Dispensada", "Atrasada - dispensada",
                  "Obrigatoria", "Em andamento"}]

\* _to_date_iso, to_date_iso: the first ten characters of an ISO date, a d/m/Y date
\* reformatted, None for a text strptime rejects
to_date_iso(value) ==
    CASE value = "" -> ""
      [] value = "10/06/2024" -> "2024-06-10"
      [] value = "1/2" -> ""
      [] OTHER -> value

\* "atras" in status_text, "disp" in status_text, "obrig" in status_text, after
\* str.lower()
HasAtras(status_text) == status_text \in {"Atrasada", "Atrasada - dispensada"}
HasDisp(status_text) == status_text \in {"Dispensada", "Atrasada - dispensada"}
HasObrig(status_text) == status_text = "Obrigatoria"

\* status_text.title() of the lowercased text
Title(status_text) ==
    CASE status_text = "Em andamento" -> "Em Andamento"
      [] status_text = "Atrasada - dispensada" -> "Atrasada - Dispensada"
      [] OTHER -> status_text

\* archived delivery_events: the status of one record; entrega is the raw field
ArchivedStatus(delivery) ==
    IF delivery.EntDtEntrega # "" THEN "Entregue"
    ELSE IF HasAtras(delivery.EntStatus) \/ delivery.EntDtAtraso # "" THEN "Atrasada"
    ELSE IF HasDisp(delivery.EntStatus) THEN "Dispensada"
    ELSE "Pendente"

\* archived delivery_events(deliveries): one event for each record that is a dict
delivery_events(deliveries) ==
    [i \in DOMAIN deliveries |->
        [status |-> ArchivedStatus(deliveries[i]),
         entrega |-> to_date_iso(deliveries[i].EntDtEntrega)]]

\* pipeline._delivery_to_event(delivery): entrega and atraso are the converted dates
_delivery_to_event(delivery) ==
    LET entrega == to_date_iso(delivery.EntDtEntrega)
        atraso == to_date_iso(delivery.EntDtAtraso)
        status_text == delivery.EntStatus
    IN  [status |-> IF entrega # "" THEN "Entregue"
                    ELSE IF HasDisp(status_text) THEN "Dispensada"
                    ELSE IF HasAtras(status_text) \/ atraso # "" THEN "Atrasada"
                    ELSE IF HasObrig(status_text) THEN "Obrigatoria"
                    ELSE IF status_text # "" THEN Title(status_text)
                    ELSE "Pendente",
         entrega |-> entrega]

\* the archived delivery_events on a list of records
DeliveryEvents ==
    /\ calc = NoCalc
    /\ \E deliveries \in UNION {[1..n -> DeliveryRecords] : n \in 0..MaxDeliveries} :
          calc' = [fn |-> "delivery_events", deliveries |-> deliveries,
                   events |-> delivery_events(deliveries)]
    /\ UNCHANGED <<clientVars, pipelineVars, syncVars, wm, storeVars, lateVars, recon, listing, resync, hist, snap>>

\* pipeline._delivery_to_event on a record
DeliveryToEvent ==
    /\ calc = NoCalc
    /\ \E delivery \in DeliveryRecords :
          calc' = [fn |-> "_delivery_to_event", deliveries |-> <<delivery>>,
                   events |-> <<_delivery_to_event(delivery)>>]
    /\ UNCHANGED <<clientVars, pipelineVars, syncVars, wm, storeVars, lateVars, recon, listing, resync, hist, snap>>

NextDelivery ==
    \/ DeliveryEvents
    \/ DeliveryToEvent

----------------------------------------------------------------------------
(* A paginated listing: the page loop of AcessoriasClient.list_processes,    *)
(* and the call that the page loop of collect_processes (scripts/pipeline.py)*)
(* makes. The server holds pages of records and answers for a page without   *)
(* records in one way. A record is <<page, position>>.                       *)

\* how the server sends a page that holds records: a JSON list, {"items": [...]}
PageShapes == {"list", "items"}

\* how the server answers for a page without records: 204, the body [], the body
\* {"items": []}, a 200 without body and a JSON content type, a 200 without body and
\* another content type
EmptyAnswers == {"204", "emptylist", "emptyitems", "nobody_json", "nobody_text"}

Servers ==
    [pages : UNION {[1..n -> 0..MaxRecords] : n \in 0..MaxServerPages},
     shape : PageShapes, empty : EmptyAnswers]

\* the number of records the server holds on a page
HeldOn(server, page) == IF page \in DOMAIN server.pages THEN server.pages[page] ELSE 0

\* the answers session.get can give for a page; r.json() of a body that is not JSON
\* raises a RequestException or a ValueError, with the version of requests
PageResponses(server, page) ==
    IF HeldOn(server, page) > 0 THEN {Resp(200, "absent", "json", server.shape)}
    ELSE CASE server.empty = "204" -> {Resp(204, "absent", "none", "none")}
           [] server.empty = "nobody_json" ->
                {Resp(200, "absent", "json", "garbage"),
                 [Resp(200, "absent", "json", "garbage") EXCEPT !.json_error = "value_error"]}
           [] server.empty = "nobody_text" -> {Resp(200, "absent", "text", "garbage")}
           [] OTHER -> {Resp(200, "absent", "json", server.empty)}

\* _request(path, params) when every attempt of its loop gets the same answer
RequestOutcome(resp) ==
    LET h == RequestStep(resp, _MAX_RETRIES, 0)
    IN  IF h.kind = "retry" THEN Step("raise", "none", "exhausted", 0) ELSE h

\* `if not payload`
Falsy(payload) == payload = "emptylist"

\* page_records: payload["items"], [payload] for another dict, list(payload);
\* _normalize_records keeps every record that is a dict, in order
PageRecords(payload, page, n) ==
    CASE payload \in {"list", "items"} -> [k \in 1..n |-> <<page, k>>]
      [] payload = "emptyitems" -> <<>>
      [] OTHER -> << <<page, 0>> >>

\* the parameters of AcessoriasClient.list_processes, self aside
list_processes_parameters == {"statuses", "dt_last_dh", "include_steps", "filters"}

\* the keywords of the call client.list_processes(...) in collect_processes
collect_processes_keywords == {"status", "page", "per_page", "dt_last_dh", "filters"}

\* a call with keywords binds when the method has a parameter for each of them; Python
\* raises TypeError when it does not
Binds(keywords, parameters) == keywords \subseteq parameters

NoListing ==
    [fn |-> "none", pc |-> "idle",
     server |-> [pages |-> <<>>, shape |-> "list", empty |-> "204"],
     page |-> 0, requested |-> <<>>, results |-> <<>>, error |-> "none"]

InitListing == listing = NoListing

\* list_processes() up to its page loop, for one status: results = [], page = 1
ListProcesses ==
    /\ listing = NoListing
    /\ \E server \in Servers :
          listing' = [NoListing EXCEPT !.fn = "list_processes", !.pc = "loop",
                                       !.server = server, !.page = 1]
    /\ UNCHANGED <<clientVars, pipelineVars, syncVars, wm, storeVars, lateVars, calc, recon, resync, hist, snap>>

\* list_processes, one iteration of `while True`: _request with Pagina = page, the
\* break on an empty payload, results.extend, page += 1
ListProcessesPage ==
    /\ listing.fn = "list_processes"
    /\ listing.pc = "loop"
    /\ listing.page <= Len(listing.server.pages) + MaxBeyond
    /\ \E resp \in PageResponses(listing.server, listing.page) :
          LET o == RequestOutcome(resp)
              asked == [listing EXCEPT !.requested = Append(@, listing.page)]
          IN  listing' =
                IF o.kind = "raise"
                THEN [asked EXCEPT !.pc = "raised", !.error = o.error]
                ELSE IF o.payload = "null"
                THEN [asked EXCEPT !.pc = "raised", !.error = "nodata"]
                ELSE IF Falsy(o.payload)
                THEN [asked EXCEPT !.pc = "returned"]
                ELSE [asked EXCEPT
                        !.results = @ \o PageRecords(o.payload, listing.page,
                                                     HeldOn(listing.server, listing.page)),
                        !.page = @ + 1]
    /\ UNCHANGED <<clientVars, pipelineVars, syncVars, wm, storeVars, lateVars, calc, recon, resync, hist, snap>>

\* collect_processes up to the first statement of its page loop, the call
\* client.list_processes(status=, page=, per_page=, dt_last_dh=, filters=) with
\* page = 1; the finally clause closes the session and the error leaves the function
CollectProcesses ==
    /\ listing = NoListing
    /\ \E server \in Servers :
          LET binds == Binds(collect_processes_keywords, list_processes_parameters)
          IN  listing' = [NoListing EXCEPT !.fn = "collect_processes",
                                           !.server = server, !.page = 1,
                                           !.pc = IF binds THEN "loop" ELSE "raised",
                                           !.error = IF binds THEN "none" ELSE "type"]
    /\ UNCHANGED <<clientVars, pipelineVars, syncVars, wm, storeVars, lateVars, calc, recon, resync, hist, snap>>

NextListing ==
    \/ ListProcesses
    \/ ListProcessesPage
    \/ CollectProcesses

----------------------------------------------------------------------------
(* The blocking flag of a step event: flatten_proc of the archived           *)
(* flatten_steps.py, and flatten_steps_recursive with process_step_to_event  *)
(* of scripts/flatten_steps.py. A Python value is written as its repr, and   *)
(* "None" is also a missing field.                                           *)

\* Bloqueante of a step or of its Automacao
FlagValues == {"None", "Sim", "sim", "Nao", "True"}

\* Status of a step
StepStatuses == {"None", "OK", "Pendente"}

\* a step: Nome, Status, Bloqueante and Automacao, which is a dict or not
FlaggedSteps ==
    [Nome : {<<"a">>, <<"b">>}, Status : StepStatuses, Bloqueante : FlagValues,
     Automacao : {[dict |-> FALSE, Bloqueante |-> "None"]}
                 \cup [dict : {TRUE}, Bloqueante : FlagValues]]

\* bool(value)
IsTruthy(value) == value \notin {"None", "False", ""}

IsSimOrAnything(value) == TRUE

\* str(bloqueante).lower() == "sim"
IsSim(value) == value \in {"Sim", "sim"}

\* archived flatten_proc on a process of one step without sub-steps: the events
flatten_proc(item) ==
    LET bloqueante == IF item.Automacao.dict THEN item.Automacao.Bloqueante ELSE "None"
    IN  IF match_rule(item.Nome, FlattenRules) # 0
        THEN << [passo_status |-> item.Status,
                 bloqueante |-> IF IsSim(bloqueante) THEN "True" ELSE "False"] >>
        ELSE <<>>

\* flatten_steps_recursive on one step without sub-steps: the flat step
flatten_steps_recursive(step) ==
    [nome |-> step.Nome, status |-> step.Status, bloqueante |-> step.Bloqueante]

\* process_step_to_event(step, process, rules) of a flat step: the events
process_step_to_event(step) ==
    IF match_step(step.nome, FlattenRules) # 0
    THEN << [passo_status |-> step.status, bloqueante |-> step.bloqueante] >>
    ELSE <<>>

\* the archived flatten_proc on a process of one step
FlattenProcStep ==
    /\ calc = NoCalc
    /\ \E step \in FlaggedSteps :
          calc' = [fn |-> "flatten_proc", step |-> step, events |-> flatten_proc(step)]
    /\ UNCHANGED <<clientVars, pipelineVars, syncVars, wm, storeVars, lateVars, recon, listing, resync, hist, snap>>

\* flatten_all_processes of scripts/flatten_steps.py on a process of one step
ProcessStepToEvent ==
    /\ calc = NoCalc
    /\ \E step \in FlaggedSteps :
          calc' = [fn |-> "process_step_to_event", step |-> step,
                   events |-> process_step_to_event(flatten_steps_recursive(step))]
    /\ UNCHANGED <<clientVars, pipelineVars, syncVars, wm, storeVars, lateVars, recon, listing, resync, hist, snap>>

NextStepEvent ==
    \/ FlattenProcStep
    \/ ProcessStepToEvent

----------------------------------------------------------------------------
(* A sync run that is repeated: the page loops of collect_processes,         *)
(* _deliveries_incremental and _deliveries_full of scripts/pipeline.py, each *)
(* page upserted row by row and committed. The watermark is saved after the  *)
(* last page only, so the run that follows a failed one gets the same pages. *)
(* A page holds one row.                                                     *)

\* the rows upstream holds for a sync of a kind
SyncRows(kind) ==
    IF kind = "process"
    THEN {Payload(e, c, "", pid, st, 0, "", "", "") :
             e \in {0, 1}, c \in {"11", "22"}, pid \in {1, 2}, st \in {"", "A"}}
    ELSE {Payload(0, c, "", 0, "", d, o[1], o[2], "Pendente") :
             c \in {"11", "22"}, d \in {0, 1}, o \in Obligations}

SyncPages(kind) == UNION {[1..n -> SyncRows(kind)] : n \in 1..MaxSyncPages}

RECURSIVE SyncAll(_, _, _, _)
\* one uninterrupted run over pages[i..]: the tables after it, or the row that raised
SyncAll(kind, db, pages, i) ==
    IF i > Len(pages) THEN Success(db, NoRow)
    ELSE LET r == Upsert(kind, db, pages[i])
         IN  IF r.ok THEN SyncAll(kind, r.db, pages, i + 1) ELSE Failure(db, r.error)

NoResync ==
    [kind |-> "none", pc |-> "idle", pages |-> <<>>, db |-> EmptyStore, run |-> 0,
     page |-> 0, persisted |-> 0, error |-> "none"]

InitResync == resync = NoResync

\* collect_processes or collect_deliveries is called on the empty tables
SyncBegin(kind) ==
    /\ resync = NoResync
    /\ \E pages \in SyncPages(kind) :
          resync' = [NoResync EXCEPT !.kind = kind, !.pc = "running", !.pages = pages,
                                     !.run = 1, !.page = 1]
    /\ UNCHANGED <<clientVars, pipelineVars, syncVars, wm, storeVars, lateVars, calc, recon, listing, hist, snap>>

SyncProcessesBegin == SyncBegin("process")

SyncDeliveriesBegin == SyncBegin("delivery")

\* one page: for row in batch: upsert_x(session, row); session.commit(). A row that
\* raises leaves the function through `finally: session.close()`
SyncPage ==
    /\ resync.pc = "running"
    /\ resync.page <= Len(resync.pages)
    /\ LET r == Upsert(resync.kind, resync.db, resync.pages[resync.page])
       IN  resync' = IF r.ok
                     THEN [resync EXCEPT !.db = r.db, !.page = @ + 1,
                                         !.persisted = IF resync.run = 1 THEN @ + 1 ELSE @]
                     ELSE [resync EXCEPT !.pc = "raised", !.error = r.error]
    /\ UNCHANGED <<clientVars, pipelineVars, syncVars, wm, storeVars, lateVars, calc, recon, listing, hist, snap>>

\* the fetch of the next page raises in the first run, after a page was committed;
\* the page after the last one, which is empty, is fetched too
SyncFetchRaises ==
    /\ resync.pc = "running"
    /\ resync.run = 1
    /\ resync.page > 1
    /\ resync.page <= Len(resync.pages) + 1
    /\ resync' = [resync EXCEPT !.pc = "failed", !.error = "fetch"]
    /\ UNCHANGED <<clientVars, pipelineVars, syncVars, wm, storeVars, lateVars, calc, recon, listing, hist, snap>>

\* the sync is called again: the sync state is the one the failed run found
SyncAgain ==
    /\ resync.pc = "failed"
    /\ resync' = [resync EXCEPT !.pc = "running", !.run = 2, !.page = 1, !.error = "none"]
    /\ UNCHANGED <<clientVars, pipelineVars, syncVars, wm, storeVars, lateVars, calc, recon, listing, hist, snap>>

\* after the last page: save_sync_state, session.commit()
SyncEnd ==
    /\ resync.pc = "running"
    /\ resync.page > Len(resync.pages)
    /\ resync' = [resync EXCEPT !.pc = "done"]
    /\ UNCHANGED <<clientVars, pipelineVars, syncVars, wm, storeVars, lateVars, calc, recon, listing, hist, snap>>

NextResync ==
    \/ SyncProcessesBegin
    \/ SyncDeliveriesBegin
    \/ SyncPage
    \/ SyncFetchRaises
    \/ SyncAgain
    \/ SyncEnd

----------------------------------------------------------------------------
(* The company a row is linked to: the keys upsert_company, upsert_process   *)
(* and upsert_delivery of scripts/db.py read from one payload. A raw payload *)
(* carries the keys EmpresaID, ProcID, DeliveryID, id and CNPJ; 0 is a key   *)
(* that is missing.                                                          *)

RawPayloads(kind) ==
    LET Raw(e, p, d, id, c) ==
            [EmpresaID |-> e, ProcID |-> p, DeliveryID |-> d, id |-> id, CNPJ |-> c]
    IN  CASE kind = "company" ->
                {Raw(e, 0, 0, 0, c) : e \in {0, 1}, c \in {"11", "22"}}
          [] kind = "process" ->
                {Raw(e, p, 0, id, c) :
                    e \in {0, 1}, p \in {0, 2}, id \in {0, 1}, c \in {"11", "1.1", "22"}}
          [] OTHER ->
                {Raw(e, 0, d, id, c) :
                    e \in {0, 1}, d \in {0, 2}, id \in {0, 1}, c \in {"11", "22"}}

\* the keys as the three upserts read them:
\*   upsert_company:  payload.get("EmpresaID") or ... or payload.get("id")
\*   upsert_process:  payload.get("ProcID") or payload.get("proc_id") or payload.get("id")
\*   upsert_delivery: payload.get("DeliveryID") or ... or payload.get("id")
ReadKeys(raw) ==
    Payload(IF raw.EmpresaID # 0 THEN raw.EmpresaID ELSE raw.id,
            raw.CNPJ, "",
            IF raw.ProcID # 0 THEN raw.ProcID ELSE raw.id, "A",
            IF raw.DeliveryID # 0 THEN raw.DeliveryID ELSE raw.id,
            "DCTF", "2024-01", "Pendente")

\* one upsert of a raw payload in a transaction of its own
UpsertRaw(kind) ==
    /\ \E raw \in RawPayloads(kind) :
          LET r == Upsert(kind, store, ReadKeys(raw))
          IN  /\ store' = r.db
              /\ last' = [kind |-> kind, error |-> r.error, raw |-> raw, row |-> r.row]
    /\ UNCHANGED <<clientVars, pipelineVars, syncVars, pureVars, lateVars, wm, batch>>

UpsertRawCompany == UpsertRaw("company")

UpsertRawProcess == UpsertRaw("process")

UpsertRawDelivery == UpsertRaw("delivery")

NextLink ==
    \/ UpsertRawCompany
    \/ UpsertRawProcess
    \/ UpsertRawDelivery

----------------------------------------------------------------------------
(* The DtLastDH of the ListAll delivery endpoint: the check of               *)
(* AcessoriasClient.list_deliveries (_validate_dt_last_dh in the archived    *)
(* client) and the two incremental delivery syncs, fetch_deliveries.main and *)
(* pipeline._deliveries_incremental.                                         *)

\* .date() of an instant
DateOf(t) == t - (t % Day)

\* list_deliveries with identificador "ListAll": raise ValueError when
\* dt.date() < (today - timedelta(days=1)).date() or dt.date() > today.date()
ListAllTakes(dt, today) ==
    ~(DateOf(dt) < DateOf(today - Day) \/ DateOf(dt) > DateOf(today))

\* _deliveries_incremental:
\* dt_last = state.last_sync_dh if state and state.last_sync_dh else today
DeliveriesIncrementalDtLast(last_sync_dh, today) ==
    IF last_sync_dh # NoTs THEN last_sync_dh ELSE today

\* a stored watermark of any age: an instant not ahead of the clock, or none
AgedValues(clock) == {v \in StoredValues(clock) : v = NoTs \/ v = Unparseable \/ v <= clock}

\* the check runs when the value was computed or five minutes later, which at
\* 23:55 is the next day
CheckTimes(clock) == {clock, clock + FiveMinutes}

\* fetch_deliveries.main: compute_dt_last_dh(last_sync), then the ListAll request
FetchDeliveriesListAll ==
    /\ \E clock \in Clocks : \E stored \in AgedValues(clock) : \E at \in CheckTimes(clock) :
          LET sent == FetchDeliveriesDtLastDh(stored, clock)
          IN  wm' = [by |-> "fetch_deliveries", stored |-> stored, clock |-> clock,
                     full |-> FALSE, sent |-> sent, at |-> at,
                     raised |-> IF ListAllTakes(sent, at) THEN "none" ELSE "ValueError"]
    /\ UNCHANGED <<clientVars, pipelineVars, syncVars, pureVars, storeVars, lateVars>>

\* collect_deliveries, incremental: _deliveries_incremental hands dt_last to
\* client.list_deliveries(identificador="ListAll", page=..., per_page=..., ...); the
\* client's list_deliveries has no page and no per_page parameter, so the call raises
\* before the check
DeliveriesIncrementalListAll ==
    /\ \E clock \in Clocks : \E stored \in AgedValues(clock) \ {Unparseable} :
       \E at \in CheckTimes(clock) :
          wm' = [by |-> "deliveries_incremental", stored |-> stored, clock |-> clock,
                 full |-> FALSE, sent |-> DeliveriesIncrementalDtLast(stored, clock),
                 at |-> at, raised |-> "TypeError"]
    /\ UNCHANGED <<clientVars, pipelineVars, syncVars, pureVars, storeVars, lateVars>>

NextListAll ==
    \/ FetchDeliveriesListAll
    \/ DeliveriesIncrementalListAll

----------------------------------------------------------------------------
(* The companies of the full (historical) delivery sync: the order of the    *)
(* stages in pipeline.run_pipeline and scheduler.run_pipeline, and the       *)
(* company table read by _deliveries_full and fetch_historical_by_cnpj. A    *)
(* company is its tax ID.                                                    *)

TaxIds == {"11", "22"}

NoHist ==
    [runner |-> "none", pc |-> 0, before |-> {}, procs |-> {}, delta |-> {}, feed |-> {},
     companies |-> {}, asked |-> {}]

InitHist == hist = NoHist

\* a run starts: run_pipeline(full=True) of scripts/pipeline.py or run_pipeline of
\* scripts/scheduler.py, on a store that holds `before`; upstream the processes
\* belong to `procs`, the ListAll delta holds deliveries of `delta`, and the
\* companies feed returns `feed`
HistRunBegin ==
    /\ hist.pc = 0
    /\ \E runner \in {"pipeline", "scheduler"} :
       \E before \in SUBSET TaxIds : \E procs \in SUBSET TaxIds :
       \E delta \in SUBSET TaxIds : \E feed \in SUBSET TaxIds :
          hist' = [runner |-> runner, pc |-> 1, before |-> before, procs |-> procs,
                   delta |-> delta, feed |-> feed, companies |-> before, asked |-> {}]
    /\ UNCHANGED <<clientVars, pipelineVars, syncVars, wm, storeVars, lateVars, calc, recon, listing, resync, snap>>

\* collect_processes: upsert_process upserts the company of every process payload;
\* fetch_api writes no table
HistProcesses ==
    /\ hist.pc = 1
    /\ hist' = [hist EXCEPT
                  !.pc = 2,
                  !.companies = IF hist.runner = "pipeline" THEN @ \cup hist.procs ELSE @]
    /\ UNCHANGED <<clientVars, pipelineVars, syncVars, wm, storeVars, lateVars, calc, recon, listing, resync, snap>>

\* collect_deliveries(full=True): _deliveries_full asks for the deliveries of each
\* company of session.query(Company).all(). fetch_deliveries.main:
\* fetch_historical_by_cnpj does the same, then the ListAll delta is fetched and
\* bulk_upsert_deliveries upserts the company of every row
HistDeliveries ==
    /\ hist.pc = 2
    /\ hist' = [hist EXCEPT
                  !.pc = 3,
                  !.asked = hist.companies,
                  !.companies = IF hist.runner = "scheduler" THEN @ \cup hist.delta ELSE @]
    /\ UNCHANGED <<clientVars, pipelineVars, syncVars, wm, storeVars, lateVars, calc, recon, listing, resync, snap>>

\* collect_companies: upsert_company for every row of the companies feed;
\* fetch_companies writes companies_obligations.json and no table. The run ends.
HistCompanies ==
    /\ hist.pc = 3
    /\ hist' = [hist EXCEPT
                  !.pc = 4,
                  !.companies = IF hist.runner = "pipeline" THEN @ \cup hist.feed ELSE @]
    /\ UNCHANGED <<clientVars, pipelineVars, syncVars, wm, storeVars, lateVars, calc, recon, listing, resync, snap>>

\* the next run
HistAgain ==
    /\ hist.pc = 4
    /\ hist' = NoHist
    /\ UNCHANGED <<clientVars, pipelineVars, syncVars, wm, storeVars, lateVars, calc, recon, listing, resync, snap>>

NextHist ==
    \/ HistRunBegin
    \/ HistProcesses
    \/ HistDeliveries
    \/ HistCompanies
    \/ HistAgain

----------------------------------------------------------------------------
(* Who writes the snapshot files: run_pipeline of scripts/pipeline.py, whose *)
(* collectors and compute_kpis call _write_json inside `with PIPELINE_LOCK`, *)
(* and kpis_endpoint of app/api.py, which calls compute_kpis itself.         *)

\* the thread that serves GET /api/kpis
KpisRequestId == MaxTriggers + 3

NoSnap == [run |-> "idle", req |-> "idle", processes |-> 0, answer |-> "none", writes |-> {}]

InitSnap == snap = NoSnap

\* _write_json(path, payload) by thread `by`, while `holder` has PIPELINE_LOCK
WriteJson(by, group) == [by |-> by, files |-> group, holder |-> lock]

\* run_pipeline enters `with PIPELINE_LOCK`
SnapRunBegin ==
    /\ snap.run = "idle"
    /\ lock = Free
    /\ lock' = JobId
    /\ snap' = [snap EXCEPT !.run = "collecting"]
    /\ UNCHANGED <<boot, triggers, job, cron, signals, clientVars, syncVars, wm, storeVars,
                   lateVars, calc, recon, listing, resync, hist>>

\* collect_processes, collect_deliveries, collect_companies, build_events: rows are
\* upserted and api_processes.json, deliveries_raw.json, companies.json and
\* events.json are written
SnapRunCollect ==
    /\ snap.run = "collecting"
    /\ \E n \in {snap.processes, 1} :
          snap' = [snap EXCEPT !.run = "compute_kpis", !.processes = n,
                               !.writes = @ \cup {WriteJson(JobId, "collected")}]
    /\ UNCHANGED <<pipelineVars, clientVars, syncVars, wm, storeVars,
                   lateVars, calc, recon, listing, resync, hist>>

\* compute_kpis called by run_pipeline, first writes: processes.json,
\* deliveries.json, companies.json
SnapRunKpisTables ==
    /\ snap.run = "compute_kpis"
    /\ snap' = [snap EXCEPT !.run = "compute_kpis_alerts",
                            !.writes = @ \cup {WriteJson(JobId, "tables")}]
    /\ UNCHANGED <<pipelineVars, clientVars, syncVars, wm, storeVars,
                   lateVars, calc, recon, listing, resync, hist>>

\* compute_kpis called by run_pipeline, last writes: kpis.json, alerts.json,
\* fechamento, reinf, efd, difal, meta; run_pipeline returns and the lock is released
SnapRunEnd ==
    /\ snap.run = "compute_kpis_alerts"
    /\ snap' = [snap EXCEPT !.run = "idle",
                            !.writes = @ \cup {WriteJson(JobId, "kpis")}]
    /\ lock' = Free
    /\ UNCHANGED <<boot, triggers, job, cron, signals, clientVars, syncVars, wm, storeVars,
                   lateVars, calc, recon, listing, resync, hist>>

\* kpis_endpoint: with no process in the table the stored snapshot is read and
\* returned; otherwise compute_kpis() is called, which begins with its first writes
KpisEndpoint ==
    /\ snap.req = "idle"
    /\ snap' = IF snap.processes = 0
               THEN [snap EXCEPT !.answer = "json"]
               ELSE [snap EXCEPT !.req = "compute_kpis_alerts", !.answer = "none",
                                 !.writes = @ \cup {WriteJson(KpisRequestId, "tables")}]
    /\ UNCHANGED <<pipelineVars, clientVars, syncVars, wm, storeVars,
                   lateVars, calc, recon, listing, resync, hist>>

\* kpis_endpoint: compute_kpis makes its last writes and returns; the payload is
\* answered with source "db"
KpisEndpointEnd ==
    /\ snap.req = "compute_kpis_alerts"
    /\ snap' = [snap EXCEPT !.req = "idle", !.answer = "db",
                            !.writes = @ \cup {WriteJson(KpisRequestId, "kpis")}]
    /\ UNCHANGED <<pipelineVars, clientVars, syncVars, wm, storeVars,
                   lateVars, calc, recon, listing, resync, hist>>

NextSnap ==
    \/ SnapRunBegin
    \/ SnapRunCollect
    \/ SnapRunKpisTables
    \/ SnapRunEnd
    \/ KpisEndpoint
    \/ KpisEndpointEnd

----------------------------------------------------------------------------
(* Specifications: each part runs with the other parts at rest *)

InitRest ==
    InitFilter /\ InitStore /\ InitRun /\ InitFuse /\ InitPure /\ InitRecon /\ InitListing
    /\ InitResync /\ InitHist /\ InitSnap

InitAll == InitClient /\ InitPipeline /\ InitSync /\ InitRest

SpecFilter == InitAll /\ [][NextFilter]_vars

SpecStore == InitAll /\ [][NextStore]_vars

SpecBatch == InitAll /\ [][NextBatch]_vars

SpecRun == InitAll /\ [][NextRun]_vars

SpecFuse == InitAll /\ [][NextFuse]_vars

SpecAlerts == InitAll /\ [][NextAlerts]_vars

SpecMatch == InitAll /\ [][NextMatch]_vars

SpecFlatten == InitAll /\ [][NextFlatten]_vars

SpecDelivery == InitAll /\ [][NextDelivery]_vars

SpecEvents == InitAll /\ [][NextEvents]_vars

SpecListing == InitAll /\ [][NextListing]_vars

SpecStepEvent == InitAll /\ [][NextStepEvent]_vars

SpecResync == InitAll /\ [][NextResync]_vars

SpecLink == InitAll /\ [][NextLink]_vars

SpecListAll == InitAll /\ [][NextListAll]_vars

SpecHist == InitAll /\ [][NextHist]_vars

SpecSnap == InitAll /\ [][NextSnap]_vars

SpecClient == InitAll /\ [][NextClient]_vars

SpecPipeline == InitAll /\ [][NextPipeline]_vars

SpecSync == InitAll /\ [][NextSync]_vars

----------------------------------------------------------------------------
(* Properties of the resilient client, checked under SpecClient *)

C3_RetryAfterHonoured ==
    (req.state = "pending" /\ wire.last.status = 429) =>
        /\ FloatOk(wire.last.retry_after) => wire.since >= FloatMs(wire.last.retry_after)
        /\ wire.last.retry_after = "absent" => wire.since >= Pow2(req.attempt) * 1000

\* C3 happens: a 429 with Retry-After: 3 at the first attempt, where the backoff
\* would have been shorter, is followed by a sleep of 3 s
C3_Witness ==
    /\ req.state = "pending"
    /\ req.attempt = 1
    /\ wire.last.status = 429
    /\ wire.last.retry_after = "3"
    /\ wire.since = 3000

\* C4: an attempt answered 401, 403 or 404 raises at once: the _request call and the
\* method that made it end with the error, no sleep follows the answer, and no
\* attempt is pending.
C4_TerminalStatuses ==
    wire.last.status \in {401, 403, 404} =>
        /\ req.state = "raised"
        /\ req.error = IF wire.last.status = 404 THEN "notfound" ELSE "auth"
        /\ call.state = "raised"
        /\ call.error = req.error
        /\ wire.since = 0

\* C4 happens: a 404 at a late attempt, after retried failures that included a
\* network exception
C4_Witness ==
    /\ wire.last.status = 404
    /\ req.attempt >= 3
    /\ req.last_exc
    /\ req.state = "raised"

\* C5: in get_process, a path variant answered with HTTP 404 that is not the last
\* variant is followed by the request of the next variant (get_process goes on).
C5_NextVariantAfter404 ==
    (call.op = "get_process" /\ wire.last.status = 404 /\ call.variant < NumVariants) =>
        call.state = "running"

\* C6: within a client method, the time between the end of an HTTP call and the start
\* of the next one is at least sleep_seconds = max(0.2 s, 60 s / budget).
C6_MinimumSpacing ==
    (call.state = "running" /\ req.state # "none") =>
        wire.since >= client.sleep_seconds

----------------------------------------------------------------------------
(* Properties of the single-flight guard, checked under SpecPipeline *)

\* C7: a refresh trigger is never queued: a trigger that was accepted (answered 202,
\* its runner thread started) never waits for a run that holds PIPELINE_LOCK.
C7_AcceptedNeverQueued ==
    \A t \in Triggers :
        (triggers[t].pc = "spawned" /\ triggers[t].answer = 202) => lock = Free

\* C8: at most one full ingestion run executes at any time, whoever started it: a
\* refresh trigger, the timer of run_all.schedule_jobs, the start-up run, or the
\* timer and start-up run of scripts/scheduler.py.
C8_OneRunAtATime ==
    Cardinality(RunsInProgress) <= 1

----------------------------------------------------------------------------
(* Properties of the watermark, checked under SpecSync *)

\* C9: a sync run that ends normally (and was not asked to reset the state) saves a
\* watermark that is not earlier than the one stored before the run.
C9_WatermarkNonDecreasing ==
    (run.pc = "done" /\ ~run.reset) => run.saved >= run.before

----------------------------------------------------------------------------
(* Properties of the DtLastDH filter, checked under SpecFilter *)

\* C11: in incremental mode the filter sent to the API is the stored timestamp minus
\* five minutes, clamped into [now - 1 day, now].
C11_FilterClamped ==
    (wm.by # "none" /\ wm.stored \notin {NoTs, Unparseable} /\ ~wm.full) =>
        wm.sent = Min(Max(wm.stored - FiveMinutes, wm.clock - Day), wm.clock)

----------------------------------------------------------------------------
(* Properties of failing syncs, checked under SpecSync *)

\* C12: a sync in which a page fetch or a persistence step failed (and that was not
\* asked to reset the state) leaves the stored watermark of its resource as it was
\* before the sync.
C12_FailedSyncKeepsWatermark ==
    (run.pc \in {"done", "aborted"} /\ run.failed /\ ~run.reset) =>
        Stored(run.kind) = run.before

\* C13: a sync that resets the state of its resource runs in full mode: the state it
\* reads is empty and no DtLastDH filter is derived from it; and none of its steps
\* changes the stored watermark of another resource.
C13_ResetForcesFull ==
    [][(run'.reset /\ run'.pc # "none") =>
          /\ run'.mode = "full"
          /\ run'.state = NoTs
          /\ CollectProcessesDtLast(run'.state, run'.full) = NoTs
          /\ \A e \in Endpoints \ {run'.kind} : sync_state'[e] = sync_state[e]
          /\ sync_file' = sync_file]_vars

\* C13 happens: a process sync with reset ended while both resources had a stored
\* watermark before it
C13_Witness ==
    /\ run.pc = "done"
    /\ run.kind = "processes"
    /\ run.reset
    /\ ~run.full
    /\ run.before # NoTs
    /\ sync_state["deliveries"] # NoTs

\* the table of one kind of row
Table(kind, db) ==
    CASE kind = "company" -> db.companies
      [] kind = "process" -> db.processes
      [] OTHER -> db.deliveries

\* payload q carries none of the keys of the stored row: for a company its source id
\* and its tax id, for a process its source id, for a delivery its source id and its
\* (company, obligation, competency)
OtherKey(kind, row, q) ==
    CASE kind = "company" ->
            /\ q.EmpresaID = 0 \/ q.EmpresaID # row.id_acessorias
            /\ normalize_cnpj(q.CNPJ) # row.cnpj
      [] kind = "process" -> q.ProcID # row.id_acessorias
      [] OTHER ->
            /\ q.DeliveryID = 0 \/ q.DeliveryID # row.id_acessorias
            /\ <<normalize_cnpj(q.CNPJ), q.Obrigacao, q.Competencia>>
                  # <<row.empresa_id, row.tipo, row.competencia>>

C15_OneDeliveryPerTriple ==
    \A r1, r2 \in store.deliveries :
        (/\ r1.empresa_id = r2.empresa_id
         /\ r1.tipo = r2.tipo
         /\ r1.competencia = r2.competencia) => r1 = r2

\* C19: a company upsert whose tax id has no digit left after normalization raises a
\* validation error and stores nothing: the store is the same after the call.
C19_EmptyCnpjRejected ==
    \A p \in CompanyPayloads :
        (p.CNPJ = "none" \/ Digits(p.CNPJ) = "") =>
            LET r == upsert_company(store, p)
            IN  ~r.ok /\ r.error = "ValueError" /\ r.db = store

\* a company upsert was rejected on a store that holds companies
C19_Witness ==
    /\ last = [kind |-> "company", error |-> "ValueError"]
    /\ store.companies # {}

\* C16: a row whose upsert fails never aborts its batch: every row of the batch is
\* either upserted or skipped, and the count is the number of rows upserted.
C16_FailingRowNeverAborts ==
    batch.pc \in {"done", "raised"} =>
        /\ \A i \in DOMAIN batch.outcomes : batch.outcomes[i] \in {"upserted", "skipped"}
        /\ batch.count = Count(batch.outcomes, "upserted")

\* C17: an error in the sync of one resource aborts only that sync: a run that has
\* ended has attempted every one of its resources.
C17_RemainingResourcesAttempted ==
    pipe.pc \in {"complete", "raised"} =>
        Len(pipe.outcomes) = Len(Steps(pipe.runner))

\* C18: a failed resource sync leaves the published snapshots untouched: after a step
\* that ended in a failure, raised or swallowed, every snapshot file that was published
\* before the step holds what it held.
C18_FailedSyncKeepsSnapshots ==
    [][(/\ Len(pipe'.outcomes) = Len(pipe.outcomes) + 1
        /\ pipe'.outcomes[Len(pipe'.outcomes)] \in {"raised", "swallowed"})
          => \A f \in SnapshotFiles : files[f] # "absent" => files'[f] = files[f]]_vars

\* the key the function under check gives an event
KeyOf(fn, event) ==
    IF fn = "fuse" THEN make_key(event) ELSE create_event_key(event)

RECURSIVE RuleFrom(_, _, _, _)
\* the rule for the secondary events, one after the other
RuleFrom(fn, merged, events, i) ==
    IF i > Len(events) THEN merged
    ELSE LET event == events[i]
             key == KeyOf(fn, event)
         IN  RuleFrom(fn,
                 IF key \notin DOMAIN merged THEN Put(merged, key, event)
                 ELSE IF merged[key].categoria = "obrigacao"
                         /\ event.categoria = "obrigacao" THEN merged
                 ELSE IF prefer_email(event) THEN Put(merged, key, event)
                 ELSE merged,
                 events, i + 1)

\* C20: the fusion follows the rule for every input: the primary events seed the map;
\* a secondary event with an absent key is added; with a present key it is dropped
\* when both records are obligations, else it replaces the record if and only if its
\* text holds an override keyword.
C20_FuseFollowsRule ==
    fused.fn # "none" =>
        /\ fused.error = "none"
        /\ fused.merged =
              RuleFrom(fused.fn, SeedFrom(fused.fn, NoEvents, fused.primary, 1),
                       fused.secondary, 1)

\* C21: a divergence entry is appended exactly when a secondary event replaces the
\* record stored under its key: as many entries as replacements, in the same order,
\* each with the key of the replacing event and, in fuse, the replaced and the
\* replacing record.
C21_DivergencePerReplacement ==
    (fused.fn # "none" /\ fused.error = "none") =>
        /\ Len(fused.divergences) = Len(fused.replaced)
        /\ \A n \in DOMAIN fused.divergences :
              /\ fused.divergences[n].key = KeyOf(fused.fn, fused.replaced[n].new)
              /\ fused.fn = "fuse" =>
                    /\ fused.divergences[n].api = fused.replaced[n].old
                    /\ fused.divergences[n].email = fused.replaced[n].new

\* C22: every divergence entry of a fusion pass records two events that share the same
\* identity key but disagree on status.
C22_DivergenceSameKeyOtherStatus ==
    (fused.fn # "none" /\ fused.error = "none") =>
        \A n \in DOMAIN fused.divergences :
            LET entry == fused.divergences[n]
            IN  IF fused.fn = "fuse"
                THEN /\ make_key(entry.api) = make_key(entry.email)
                     /\ entry.api.status # entry.email.status
                ELSE /\ entry.api_status # entry.email_status
                     /\ \E i \in DOMAIN fused.primary, j \in DOMAIN fused.secondary :
                           /\ create_event_key(fused.primary[i]) = entry.key
                           /\ create_event_key(fused.secondary[j]) = entry.key
                           /\ fused.primary[i].status = entry.api_status
                           /\ fused.secondary[j].status = entry.email_status

Listed(alerts) == {alerts[n].proc_id : n \in DOMAIN alerts}

\* the deadline categories of a builder: the alert list, the due day, and the rows
\* that belong to the category
Deadlines(fn) ==
    IF fn = "archived_build_alerts"
    THEN {[list |-> "reinf_em_risco", day |-> reinf_day],
          [list |-> "efd_contrib_em_risco", day |-> efd_contrib_day]}
    ELSE {[list |-> "sn_em_risco", day |-> sn_day],
          [list |-> "reinf_em_risco", day |-> reinf_day]}

\* the rows the deadlines are computed for
DeadlineRows == IF calc.fn = "archived_build_alerts" THEN calc.events ELSE calc.processes

\* row is a still-open, non-delivered row of the category
OpenIn(fn, row, list) ==
    IF fn = "archived_build_alerts"
    THEN /\ row.categoria = "obrigacao"
         /\ TargetList(row) = list
         /\ ~(row.entrega # 0 /\ row.status = "Entregue")
    ELSE /\ row.competencia # "" /\ row.conclusao = 0
         /\ list = "reinf_em_risco" => row.efd_reinf = "Obrigatoria"

\* C24: for each of the two deadline categories, a still-open, non-delivered event is
\* in the category's alert list if and only if 0 <= (effective due date - today) <=
\* risk window, the effective due date being the event's own due date when it has one
\* and the category's day of the month otherwise.
C24_InRiskIffDueWithinWindow ==
    calc.fn \in {"archived_build_alerts", "build_alerts"} =>
        \A deadline \in Deadlines(calc.fn) : \A i \in DOMAIN DeadlineRows :
            LET row == DeadlineRows[i]
                due == IF row.prazo # 0 THEN row.prazo ELSE deadline.day
            IN  OpenIn(calc.fn, row, deadline.list) =>
                  (i \in Listed(calc.alerts[deadline.list])
                     <=> (0 <= due - calc.today /\ due - calc.today <= risk_window_days))

\* the events from process steps
IsStepEvent(fn, event) ==
    IF fn = "archived_build_alerts" THEN event.categoria = "process_step"
    ELSE event.source = "api"

SameLetter(c, d) == c = d \/ {c, d} = {"a", "A"}

\* a non-empty needle occurs in the text, case aside
OccursAnyCase(needle, text) ==
    /\ needle # <<>>
    /\ \E k \in 0..(Len(text) - Len(needle)) :
          \A j \in 1..Len(needle) : SameLetter(needle[j], text[k + j])

\* the index given is the first one of the rule list that satisfies Applies, or 0 when
\* none does
IsFirst(index, rules, Applies(_)) ==
    /\ index \in DOMAIN rules => Applies(rules[index])
    /\ \A i \in DOMAIN rules : (index = 0 \/ i < index) => ~Applies(rules[i])
    /\ index \in DOMAIN rules \cup {0}

\* C26 as stated: the rule applied to a label is the first rule in list order whose
\* substring occurs in the label, case aside, and a label that contains no rule's
\* substring matches no rule.
C26_FirstSubstringWins ==
    calc.fn \in Matchers =>
        IsFirst(calc.rule, calc.rules,
                LAMBDA rule : OccursAnyCase(rule.contains, calc.name))

\* C26, amended: in _match_rule and the archived match_rule the rule applied is the
\* first rule in list order whose non-empty substring occurs in the label, case aside,
\* and no rule when there is none; in match_step it is the first rule whose substring
\* or one of whose tags occurs in the label, case aside, an empty substring or tag
\* occurring in every label.
C26_FirstMatchWins ==
    calc.fn \in Matchers =>
        IsFirst(calc.rule, calc.rules,
                LAMBDA rule :
                    IF calc.fn # "match_step"
                    THEN OccursAnyCase(rule.contains, calc.name)
                    ELSE \/ rule.contains = <<>>
                         \/ OccursAnyCase(rule.contains, calc.name)
                         \/ \E t \in DOMAIN rule.tags :
                               OccursAnyCase(rule.tags[t], calc.name))

\* C26 happens: the label holds the substrings of both rules of the list, the first
\* one in another case, before or after the second, and the first rule is applied
C26_Witness ==
    /\ calc.fn = "_match_rule"
    /\ Len(calc.rules) = 2
    /\ calc.rules[1].contains = <<"A">> /\ calc.rules[2].contains = <<"b">>
    /\ calc.name = <<"b", "b", "a">>
    /\ calc.rule = 1

RECURSIVE StepAt(_, _)
\* the step at a path of a step tree
StepAt(passos, path) ==
    IF Len(path) = 1 THEN passos[path[1]]
    ELSE StepAt(passos[path[1]].sub, Tail(path))

RECURSIVE IsPath(_, _)
IsPath(passos, path) ==
    /\ path # <<>>
    /\ path[1] \in DOMAIN passos
    /\ Len(path) > 1 => IsPath(passos[path[1]].sub, Tail(path))

\* the paths of the steps of a tree
PathsOf(passos) ==
    {path \in UNION {[1..d -> 1..MaxWidth] : d \in 1..MaxDepth} : IsPath(passos, path)}

\* path p comes before path q in pre-order: p is a proper prefix of q, or p is to the
\* left of q where they part
Before(p, q) ==
    \/ Len(p) < Len(q) /\ SubSeq(q, 1, Len(p)) = p
    \/ \E k \in 1..Min(Len(p), Len(q)) :
          /\ SubSeq(p, 1, k - 1) = SubSeq(q, 1, k - 1)
          /\ p[k] < q[k]

\* the events are those of the steps that satisfy Matches, one each, in pre-order
OnePerMatchInPreOrder(Matches(_)) ==
    /\ {calc.events[n].path : n \in DOMAIN calc.events}
          = {path \in PathsOf(calc.passos) : Matches(path)}
    /\ \A m, n \in DOMAIN calc.events :
          m < n => Before(calc.events[m].path, calc.events[n].path)

\* the label of a step made of its own name and the name of its delivery
OwnLabel(path) ==
    Label(StepAt(calc.passos, path).nome, StepAt(calc.passos, path).entrega)

RECURSIVE NameAt(_)
\* the name of a step, or of its nearest ancestor with a name when it has none
NameAt(path) ==
    IF StepAt(calc.passos, path).nome # <<>> \/ Len(path) = 1
    THEN StepAt(calc.passos, path).nome
    ELSE NameAt(SubSeq(path, 1, Len(path) - 1))

Flatteners == {"_flatten_process_events", "flatten_proc"}

\* C27 as stated: flatten walks the step tree depth-first in pre-order and emits one
\* event for each step whose own label matches a rule, none for a step whose label
\* matches no rule, the children of unmatched steps included; the events are in
\* pre-order of their steps.
C27_OneEventPerOwnLabel ==
    calc.fn \in Flatteners =>
        OnePerMatchInPreOrder(
            LAMBDA path : OccursAnyCase(FlattenRules[1].contains, OwnLabel(path)))

\* C27, amended: as stated, where the label of a step without a name is, in
\* _flatten_process_events, made of the name of its nearest ancestor that has one.
C27_OneEventPerLabel ==
    calc.fn \in Flatteners =>
        OnePerMatchInPreOrder(
            LAMBDA path :
                OccursAnyCase(FlattenRules[1].contains,
                    IF calc.fn = "flatten_proc" THEN OwnLabel(path)
                    ELSE Label(NameAt(path), StepAt(calc.passos, path).entrega)))

\* C27 happens: an unmatched first step with a matched child, then a matched second
\* step with a matched child: three events, the child of the first step first
C27_Witness ==
    /\ calc.fn = "_flatten_process_events"
    /\ Len(calc.passos) = 2
    /\ calc.passos[1].nome = <<"b">> /\ calc.passos[1].entrega = <<>>
    /\ Len(calc.events) = 3
    /\ calc.events[1].path = <<1, 1>>
    /\ calc.events[2].path = <<2>>
    /\ calc.events[3].path = <<2, 1>>
    /\ \A path \in PathsOf(calc.passos) : StepAt(calc.passos, path).nome # <<>>

\* C28: a delivery record converts to exactly one event whose status follows the
\* priority: delivered date present gives Entregue (delivered); else a status text with
\* the late marker or a late date present gives Atrasada (late); else a status text
\* with the exempt marker gives Dispensada (exempt); else Pendente (pending). Without
\* delivered date, a status text with both markers gives Atrasada.
C28_DeliveryStatusPriority ==
    calc.fn \in {"delivery_events", "_delivery_to_event"} =>
        /\ Len(calc.events) = Len(calc.deliveries)
        /\ \A i \in DOMAIN calc.deliveries :
              LET delivery == calc.deliveries[i]
              IN  calc.events[i].status =
                    IF delivery.EntDtEntrega # "" THEN "Entregue"
                    ELSE IF delivery.EntStatus \in {"Atrasada", "Atrasada - dispensada"}
                            \/ delivery.EntDtAtraso # "" THEN "Atrasada"
                    ELSE IF delivery.EntStatus = "Dispensada" THEN "Dispensada"
                    ELSE "Pendente"

\* two lists hold the same events, each as many times
SameEvents(a, b) ==
    \A i \in DOMAIN (a \o b) : Count(a, (a \o b)[i]) = Count(b, (a \o b)[i])

\* the events of the steps of the stored processes and of the stored deliveries
Derived ==
    LET OfProcess(id) ==
            IF recon.processes[id] = 0 THEN 0 ELSE recon.processes[id]
    IN  [n \in 1..(OfProcess(1) + OfProcess(2)) |->
            [source |-> "process", proc_id |-> IF n <= OfProcess(1) THEN 1 ELSE 2,
             subtipo |-> "reinf"]]
        \o (IF recon.deliveries[1] = 0 THEN <<>>
            ELSE << [source |-> "delivery", proc_id |-> 1,
                     subtipo |-> IF recon.deliveries[1] = 1 THEN "Pendente"
                                 ELSE "Entregue"] >>)

\* C29: the event set is rebuilt on every pass: when build_events has completed, the
\* stored events and the published list are exactly the events derived from the
\* processes and deliveries stored now, however many passes ran before: nothing
\* accumulates and no event of an earlier pass is left over.
C29_EventsRebuilt ==
    recon.pc = "done" =>
        /\ SameEvents(recon.events, Derived)
        /\ SameEvents(recon.published, Derived)

\* C29 happens: a third pass completed, the pass before it had published events, one
\* of them of a delivery version that is no longer stored, and events are derived now
C29_Witness ==
    /\ recon.pc = "done"
    /\ recon.passes = 3
    /\ recon.previous # recon.published
    /\ \E i \in DOMAIN recon.previous : Count(recon.published, recon.previous[i]) = 0
    /\ Len(recon.published) >= 3

\* the first page on which the server holds no record
FirstEmpty(server) ==
    CHOOSE p \in 1..(Len(server.pages) + 1) :
        /\ HeldOn(server, p) = 0
        /\ \A q \in 1..(p - 1) : HeldOn(server, q) > 0

RECURSIVE RecordsThrough(_, _)
\* the records the server holds on pages 1..p, in page order
RecordsThrough(server, p) ==
    IF p = 0 THEN <<>>
    ELSE RecordsThrough(server, p - 1) \o [k \in 1..HeldOn(server, p) |-> <<p, k>>]

\* C30: a paginated listing requests pages 1, 2, 3, ... in increasing order, ends at
\* the first page whose response is empty (an HTTP 204 or an empty body is an empty
\* collection, not an error) and returns the records of all earlier pages in page
\* order; it requests no page after the first empty one, so it terminates when the
\* server has finitely many non-empty pages.
C30_ListingEndsAtFirstEmptyPage ==
    listing.fn # "none" =>
        LET first == FirstEmpty(listing.server)
        IN  /\ listing.requested = [i \in 1..Len(listing.requested) |-> i]
            /\ Len(listing.requested) <= first
            /\ listing.pc # "raised"
            /\ listing.pc = "returned" =>
                  /\ Len(listing.requested) = first
                  /\ listing.results = RecordsThrough(listing.server, first - 1)

StepFlatteners == {"flatten_proc", "process_step_to_event"}

\* C31 as stated: an event the flattener emits for a step has blocking true only if
\* the step node carries a truthy blocking flag and the step's own status is not OK.
C31_BlockingOnlyIfFlaggedAndNotOk ==
    (calc.fn \in StepFlatteners /\ "step" \in DOMAIN calc) =>
        \A i \in DOMAIN calc.events :
            IsTruthy(calc.events[i].bloqueante) =>
                /\ \/ IsTruthy(calc.step.Bloqueante)
                   \/ IsTruthy(calc.step.Automacao.Bloqueante)
                /\ calc.step.Status # "OK"

\* C31, amended: an event the flattener emits for a step has blocking true only if
\* the node carries the blocking flag: in flatten_proc exactly when the text of
\* Automacao.Bloqueante is 'sim', case aside, and in process_step_to_event the event
\* carries the step's Bloqueante unchanged. The step's own status does not enter: the
\* event carries it unchanged as passo_status.
C31_BlockingIsTheFlag ==
    (calc.fn \in StepFlatteners /\ "step" \in DOMAIN calc) =>
        \A i \in DOMAIN calc.events :
            /\ calc.events[i].passo_status = calc.step.Status
            /\ IF calc.fn = "flatten_proc"
               THEN IsTruthy(calc.events[i].bloqueante)
                       <=> calc.step.Automacao.Bloqueante \in {"Sim", "sim"}
               ELSE calc.events[i].bloqueante = calc.step.Bloqueante

\* C31 happens: a step whose status is OK and whose Automacao carries the flag gives
\* an event with blocking true, and one without the flag an event with blocking false
C31_Witness ==
    /\ calc.fn = "flatten_proc"
    /\ calc.step.Status = "OK"
    /\ calc.step.Automacao.Bloqueante = "Sim"
    /\ calc.step.Bloqueante = "None"
    /\ Len(calc.events) = 1
    /\ calc.events[1].bloqueante = "True"
    /\ calc.events[1].passo_status = "OK"

\* upstream holds every delivery that has an identifier once: two rows of the listing
\* with the same DeliveryID are the same row
EachDeliveryOnce(pages) ==
    \A i, j \in DOMAIN pages :
        (pages[i].DeliveryID # 0 /\ pages[i].DeliveryID = pages[j].DeliveryID)
            => pages[i] = pages[j]

\* C32: if a sync run fails after some pages were persisted and the sync is run again
\* against unchanged upstream data, the second run ends and the tables after it equal
\* the tables a single uninterrupted run produces: no duplicate Company, Process or
\* Delivery row and the same field values.
C32_RerunEqualsSingleRun ==
    resync.run = 2 =>
        LET single == SyncAll(resync.kind, EmptyStore, resync.pages, 1)
        IN  single.ok =>
               /\ resync.pc # "raised"
               /\ resync.pc = "done" => resync.db = single.db

\* C32 where upstream holds no two different rows with the same delivery identifier:
\* the second run ends and the tables after it equal those of a single run.
C32_RerunOfDistinctRowsEqualsSingleRun ==
    (resync.run = 2 /\ EachDeliveryOnce(resync.pages)) =>
        LET single == SyncAll(resync.kind, EmptyStore, resync.pages, 1)
        IN  single.ok =>
               /\ resync.pc # "raised"
               /\ resync.pc = "done" => resync.db = single.db

\* a repeated run: the first run of a delivery sync failed after two pages of three, the
\* second run went over all three and ended, and one company and two deliveries are
\* stored
C32_RepeatedRun ==
    /\ resync.kind = "delivery"
    /\ resync.run = 2
    /\ resync.pc = "done"
    /\ resync.persisted = 2
    /\ Len(resync.pages) = 3
    /\ EachDeliveryOnce(resync.pages)
    /\ resync.pages[1] = resync.pages[3]
    /\ Cardinality(resync.db.companies) = 1
    /\ Cardinality(resync.db.deliveries) = 2

\* C33: after any sequence of process and delivery upserts, every stored Process and
\* Delivery is linked to the Company whose tax ID equals the normalized tax ID of the
\* payload that last wrote it, whatever the process's or delivery's own identifier. A
\* link is set by the upsert that writes the row and the tax ID of a stored company
\* never changes, so this is stated of the row each upsert has just written.
C33_LinkedByTaxId ==
    (last.kind \in {"process", "delivery"} /\ last.error = "none") =>
        last.row.empresa_id = normalize_cnpj(last.raw.CNPJ)

\* C34: after a pipeline run ends, normally or by an exception raised in a stage,
\* the single-flight guard is free again: whoever holds PIPELINE_LOCK is a run still
\* in progress (a refresh runner inside run_pipeline, the scheduler's job, or the
\* initial run of run_all), so a run that has ended never keeps later triggers out.
C34_GuardHeldOnlyByRunInProgress ==
    /\ \A t \in Triggers : lock = t => triggers[t].pc = "running"
    /\ lock = JobId => job = "running"
    /\ lock = BootId => boot = "initial_run"

\* a refresh run has ended, the guard is free and a later trigger has passed the
\* locked() test
C34_Witness ==
    \E t, u \in Triggers :
        /\ t # u
        /\ triggers[t].pc = "idle" /\ triggers[t].answer = 202
        /\ lock = Free
        /\ triggers[u].pc = "checked"

\* C35: every DtLastDH an incremental delivery sync passes to the ListAll endpoint
\* satisfies the client's own ListAll check (its date is today or yesterday at the
\* moment of the check), whatever the age of the stored watermark.
C35_ListAllValueTaken ==
    wm.by \in {"fetch_deliveries", "deliveries_incremental"} =>
        ListAllTakes(wm.sent, wm.at)

\* C35 for fetch_deliveries.main alone, whose compute_dt_last_dh raises an old
\* watermark to the start of yesterday, when the check runs on the day the value was
\* computed
C35_FetchDeliveriesValueTakenSameDay ==
    (wm.by = "fetch_deliveries" /\ DateOf(wm.at) = DateOf(wm.clock)) =>
        ListAllTakes(wm.sent, wm.at)

\* _deliveries_incremental with a watermark three days old: the value it passes
\* fails the check made at the same instant
C35_OldWatermarkPassedOn ==
    /\ wm.by = "deliveries_incremental"
    /\ wm.stored # NoTs
    /\ wm.stored <= wm.clock - 3 * Day
    /\ wm.at = wm.clock
    /\ ~ListAllTakes(wm.sent, wm.at)

\* fetch_deliveries.main with a watermark three days old
C35_OldWatermarkRaised ==
    /\ wm.by = "fetch_deliveries"
    /\ wm.stored \notin {NoTs, Unparseable}
    /\ wm.stored <= wm.clock - 3 * Day
    /\ wm.raised = "none"

\* C36: in one pipeline run the full delivery sync fetches deliveries for every
\* company known at the end of that run; on a first run against an empty store, for
\* every company the companies feed returns.
C36_HistoryForEveryCompany ==
    (hist.runner = "pipeline" /\ hist.pc = 4) =>
        /\ hist.companies \subseteq hist.asked
        /\ hist.before = {} => hist.feed \subseteq hist.asked

\* what the full delivery sync does cover: the companies stored when its stage began,
\* which in run_pipeline are those stored before the run and those of the processes
C36_HistoryForStoredCompanies ==
    (hist.runner = "pipeline" /\ hist.pc = 4) => hist.asked = hist.before \cup hist.procs

\* a first run of run_pipeline whose companies feed returns a company no process
\* belongs to
C36_FirstRunLeavesOut ==
    /\ hist.runner = "pipeline" /\ hist.pc = 4
    /\ hist.before = {}
    /\ hist.feed \ hist.asked # {}

\* C37: published snapshot files are written only by a pipeline run that holds the
\* single-flight guard: every write is made by the thread that has PIPELINE_LOCK at
\* that moment, and serving GET /api/kpis writes nothing, so that no write of a
\* request falls between the writes of a running pipeline.
C37_SnapshotsWrittenByGuardHolder ==
    /\ \A w \in snap.writes : w.holder = w.by
    /\ ~(snap.req # "idle" /\ snap.run = "compute_kpis_alerts")

\* a GET /api/kpis wrote snapshot files while a run held the guard and was between
\* its own writes
C37_RequestWritesDuringRun ==
    /\ snap.run = "compute_kpis_alerts"
    /\ \E w \in snap.writes : w.by = KpisRequestId /\ w.holder = JobId

\* what holds of kpis_endpoint: it writes nothing while the process table is empty
C37_EmptyTableReadsOnly ==
    snap.processes = 0 => \A w \in snap.writes : w.by # KpisRequestId

\* the second half of C38: a primary event that is the last one of its key in the
\* primary list and that no secondary event was assigned over is in the merged output
C38_UnreplacedPrimaryKept ==
    fused.fn = "fuse" =>
        \A i \in DOMAIN fused.primary :
            (/\ \A j \in (i + 1)..Len(fused.primary) :
                    make_key(fused.primary[j]) # make_key(fused.primary[i])
             /\ \A n \in DOMAIN fused.replaced :
                    fused.replaced[n].old # fused.primary[i])
            => \E m \in DOMAIN fused.events : fused.events[m] = fused.primary[i]

\* two secondary events of one key that no primary event has: the second, preferred,
\* is recorded against the first
C38_ApiSideIsSecondary ==
    /\ fused.fn = "fuse"
    /\ fused.primary = <<>>
    /\ Len(fused.secondary) = 2
    /\ Len(fused.divergences) = 1
    /\ fused.divergences[1].api = fused.secondary[1]

\* C38: in every divergence entry produced by fuse, the record stored as the api
\* side is an event of the primary input list, also when several secondary events
\* share one key, and every event of the primary list that was never replaced (by a
\* later primary event of its key or by a secondary event) is in the merged output.
C38_DivergenceApiSideIsPrimary ==
    fused.fn = "fuse" =>
        /\ \A n \in DOMAIN fused.divergences :
              \E i \in DOMAIN fused.primary : fused.primary[i] = fused.divergences[n].api
        /\ C38_UnreplacedPrimaryKept

====
